---- MODULE Spec2Model ----
(***************************************************************************)
(* A model of the tweet-archive analysis utilities                         *)
(* (src/utils/analysis_utils.py).                                          *)
(*                                                                         *)
(*   SpecThreads  reconstruct_threads, statement by statement: the parent  *)
(*                map, the per-call root cache and the walk of             *)
(*                find_thread_root, one loop iteration per step.           *)
(*   SpecTier     engineer_features on the timestamp column: the           *)
(*                normalization of created_at and the account tier.        *)
(*   SpecDetect   engineer_features on the retweet and quote columns:      *)
(*                detect_retweet and detect_quote applied to a row.        *)
(*   SpecReply    engineer_features on the author and reply-target         *)
(*                columns: the resolution of the self-identifier           *)
(*                (infer_my_user_id) and classify_reply.                   *)
(*   SpecCalls    calls of create_core_sample, normalize_datetime,         *)
(*                reconstruct_threads and engineer_features on table       *)
(*                objects that the caller keeps a reference to.            *)
(*   SpecLoad     load_archive on a file, from the attempt to read it as   *)
(*                JSON Lines to the table returned or the exception.       *)
(*   SpecPool     classify_tweets_batch                                    *)
(*                (src/02_classification_workflow.py): the tasks, the      *)
(*                semaphore, the batches and the write-back; SpecPoolFair  *)
(*                adds the fairness of the event loop and of the           *)
(*                completion calls.                                        *)
(*                                                                         *)
(*   SpecFetch    fetch_account_info and combine_and_export                *)
(*                (src/scripts/mutuals_extract.py): runs of the fetch over *)
(*                the batch files that earlier runs left.                  *)
(*                                                                         *)
(* Each specification drives its own group of variables and leaves the     *)
(* other groups at their idle values.                                      *)
(***************************************************************************)
EXTENDS Integers, Sequences, FiniteSets, TLC

VARIABLES
    \* ---- reconstruct_threads ----
    df,                 \* the rows of the table, in row order: [id_str, reply]
    parent_map,         \* child id -> parent id
    thread_root_cache,  \* id -> cached root
    walk,               \* locals of the running find_thread_root call
    thread_id,          \* the thread_id column, by row position (None = not yet set)
    row,                \* position of Series.apply in the id_str column
    pc,                 \* control point of reconstruct_threads
    \* ---- engineer_features ----
    df_eng,             \* the working copy of the table, in row order
    stage,              \* control point of engineer_features
    MY_USER_ID,         \* the module-level setting of the same name
    my_user_id,         \* the argument of engineer_features
    resolved_user_id,   \* the local of engineer_features
    \* ---- calls of the table functions, with the tables as objects ----
    heap,               \* the table objects, by reference (1, 2, ...)
    fn,                 \* the function the caller has called
    at,                 \* control point of the call
    df_arg,             \* reference of the table the caller passed
    local,              \* reference held by the function's working variable
    ret,                \* what the call gave back: a table or an exception
    file,               \* load_archive: the file at `path`
    load_at,            \* load_archive: control point
    obj,                \* load_archive: what json.load parsed
    loaded,             \* load_archive: the table returned or the exception raised
    tweets_df,          \* classify_tweets_batch: the table passed in
    pool_at,            \* classify_tweets_batch: control point
    semaphore,          \* the Semaphore: permits left and waiting tasks
    task,               \* the state of each task of `tasks`
    client,             \* what the completion client did for each task's call
    batch_results,      \* the result of each task, once it has one
    batch_start,        \* the loop counter i of the running for loop
    classifications,    \* the list `classifications`
    classified_df,      \* the copy that receives the classifications
    \* ---- fetch_account_info and combine_and_export ----
    mutual_ids_json,    \* the file data/mutual_ids.json
    batch_files,        \* the files data/mutuals_batch<i>.json, by i
    fetch_at,           \* control point of fetch_account_info
    batches,            \* the list `batches`
    batch_no,           \* the loop counter i of the for loop
    result,             \* what subprocess.run returned
    runs,               \* how many runs of fetch_account_info have started
    cli_calls,          \* how often the CLI has been run for each batch
    last_fetch,         \* how the last fetch of each batch ended
    combined            \* the outcome of the last combine_and_export

threadVars == <<df, parent_map, thread_root_cache, walk, thread_id, row, pc>>

userVars == <<MY_USER_ID, my_user_id, resolved_user_id>>

featureVars == <<df_eng, stage, userVars>>

callVars == <<heap, fn, at, df_arg, local, ret>>

loadVars == <<file, load_at, obj, loaded>>

poolVars == <<tweets_df, pool_at, semaphore, task, client, batch_results, batch_start,
              classifications, classified_df>>

fetchVars == <<mutual_ids_json, batch_files, fetch_at, batches, batch_no, result, runs,
               cli_calls, last_fetch, combined>>

vars == <<threadVars, featureVars, callVars, loadVars, poolVars, fetchVars>>

\* The variables a specification leaves alone.
notThreadVars == <<featureVars, callVars, loadVars, poolVars, fetchVars>>

notFeatureVars == <<threadVars, callVars, loadVars, poolVars, fetchVars>>

notCallVars == <<threadVars, featureVars, loadVars, poolVars, fetchVars>>

notLoadVars == <<threadVars, featureVars, callVars, poolVars, fetchVars>>

notPoolVars == <<threadVars, featureVars, callVars, loadVars, fetchVars>>

notFetchVars == <<threadVars, featureVars, callVars, loadVars, poolVars>>

(***************************************************************************)
(* Bounds of the model.                                                    *)
(***************************************************************************)
\* Status ids are the strings "1" .. "MaxIds", written 1 .. MaxIds.
MaxIds == 3

\* The most rows of a table whose timestamps are normalized and tiered.
MaxTierRows == 2

\* The most rows of a table whose replies are classified.
MaxReplyRows == 2

\* The most rows of a feature-engineered table that is filtered.
MaxCoreRows == 2

\* The most rows of a raw table that a table function is called with.
MaxCallRows == 2

\* reconstruct_threads: the most rows of a normalized table.
MaxStepRows == 4

\* classify_tweets_batch: the most tweets of a table.
MaxTweets == 11

\* classify_tweets_batch: the most calls the completion client fails.
MaxFailures == 1

\* load_archive: the most records an archive file holds.
MaxRecords == 2

\* Rows of a table whose rows differ in their timestamps.
MaxDatedRows == 3

\* The most batches the mutual ids are cut into.
MaxBatches == 3

\* The most runs of fetch_account_info.
MaxRuns == 3

(***************************************************************************)
(* Values shared by the components.                                        *)
(***************************************************************************)
\* A missing cell (None / NaN): `notna` is false of it.
None == 0

Last(s) == s[Len(s)]

Range(f) == {f[x] : x \in DOMAIN f}

\* The bijections of 1..n onto itself: the row orders of an n-row table.
PermsOf ==
    LET sizes == {MaxIds, MaxTierRows, MaxReplyRows, MaxCoreRows, MaxCallRows, MaxStepRows,
                  MaxDatedRows}
        largest == CHOOSE x \in sizes : \A y \in sizes : y <= x
    IN [n \in 0..largest |->
            {p \in [1..n -> 1..n] : \A i, j \in 1..n : p[i] = p[j] => i = j}]

Perms(n) == PermsOf[n]

(***************************************************************************)
(* reconstruct_threads                                                     *)
(***************************************************************************)
IdSet == 1..MaxIds

\* A row as reconstruct_threads reads it: its id and the id it replies to.
ThreadRow == [id_str : IdSet, reply : IdSet \cup {None}]

\* Tables of 1..MaxIds rows whose ids are pairwise distinct, in any row order.
ThreadTables ==
    UNION {{t \in [1..n -> ThreadRow] :
                \A i, j \in 1..n : t[i].id_str = t[j].id_str => i = j} :
           n \in 1..MaxIds}

\* df_replying.set_index('id_str')[reply_col].astype(str).to_dict(): only the
\* rows whose reply cell is not null; a later row shadows an earlier one.
ParentMapOf(rows) ==
    LET replying == {i \in DOMAIN rows : rows[i].reply /= None}
        keys == {rows[i].id_str : i \in replying}
        lastOf(k) == CHOOSE i \in replying :
                        /\ rows[i].id_str = k
                        /\ \A j \in replying : rows[j].id_str = k => j <= i
    IN [k \in keys |-> rows[lastOf(k)].reply]

\* The locals of find_thread_root on entry to the while loop.
WalkInit(tweet_id) ==
    [path |-> <<tweet_id>>, curr_id |-> tweet_id, seen |-> {tweet_id},
     steps |-> 0, broke |-> FALSE]

NoWalk == [path |-> <<>>, curr_id |-> None, seen |-> {}, steps |-> 0, broke |-> FALSE]

\* The loop test `while curr_id in parent_map`; a `break` leaves the loop
\* without testing it again.
LoopCond(pm, w) == ~w.broke /\ w.curr_id \in DOMAIN pm

\* The loop body without the cycle cut-off.
WhileBodyNoCut(pm, w) ==
    LET nxt == pm[w.curr_id]
    IN [w EXCEPT !.curr_id = nxt, !.steps = @ + 1,
                 !.path = Append(@, nxt), !.seen = @ \cup {nxt}]

\* The loop body with a `break` after the first step: the walk ends at the
\* direct parent.
WhileBodyOneHop(pm, w) ==
    LET nxt == pm[w.curr_id]
    IN IF nxt \in w.seen
       THEN [w EXCEPT !.curr_id = nxt, !.steps = @ + 1, !.broke = TRUE]
       ELSE [w EXCEPT !.curr_id = nxt, !.steps = @ + 1, !.broke = TRUE,
                      !.path = Append(@, nxt), !.seen = @ \cup {nxt}]

\* One iteration of the loop body: step to the parent, stop at a visited id.
\* `steps` counts the iterations (it is not a variable of the code).
WhileBody(pm, w) ==
    LET nxt == pm[w.curr_id]
    IN IF nxt \in w.seen
       THEN [w EXCEPT !.curr_id = nxt, !.steps = @ + 1, !.broke = TRUE]
       ELSE [w EXCEPT !.curr_id = nxt, !.steps = @ + 1,
                      !.path = Append(@, nxt), !.seen = @ \cup {nxt}]

\* root_id = path[-1]; every node of the path is cached under it.
CacheAfter(cache, w) ==
    [k \in DOMAIN cache \cup Range(w.path) |->
        IF k \in Range(w.path) THEN Last(w.path) ELSE cache[k]]

\* find_thread_root's loop run to its exit.
RECURSIVE RunWalk(_, _)
RunWalk(pm, w) == IF LoopCond(pm, w) THEN RunWalk(pm, WhileBody(pm, w)) ELSE w

\* One call of find_thread_root: the root it returns and the cache it leaves.
FindThreadRoot(pm, cache, tweet_id) ==
    IF tweet_id \in DOMAIN cache
    THEN [root |-> cache[tweet_id], cache |-> cache]
    ELSE LET w == RunWalk(pm, WalkInit(tweet_id))
         IN [root |-> Last(w.path), cache |-> CacheAfter(cache, w)]

\* df_copy['id_str'].apply(find_thread_root): the calls in row order, sharing
\* the cache; the result is the thread_id column by row position.
RECURSIVE ApplyFind(_, _, _, _, _)
ApplyFind(pm, rows, i, cache, out) ==
    IF i > Len(rows)
    THEN out
    ELSE LET r == FindThreadRoot(pm, cache, rows[i].id_str)
         IN ApplyFind(pm, rows, i + 1, r.cache, Append(out, r.root))

ThreadIdColumn(rows) == ApplyFind(ParentMapOf(rows), rows, 1, <<>>, <<>>)

\* The thread_id of each record id, read off a table and its thread_id column.
ThreadIdById(rows, col) ==
    [k \in {rows[i].id_str : i \in DOMAIN rows} |->
        col[CHOOSE i \in DOMAIN rows : rows[i].id_str = k]]

\* The table with its rows in the order p.
Reorder(rows, p) == [i \in DOMAIN rows |-> rows[p[i]]]

ThreadsIdle ==
    /\ df = <<>>
    /\ parent_map = <<>>
    /\ thread_root_cache = <<>>
    /\ walk = NoWalk
    /\ thread_id = <<>>
    /\ row = 0
    /\ pc = "idle"

ThreadsInit ==
    /\ df \in ThreadTables
    /\ parent_map = <<>>
    /\ thread_root_cache = <<>>
    /\ walk = NoWalk
    /\ thread_id = [i \in DOMAIN df |-> None]
    /\ row = 0
    /\ pc = "start"

\* Lines 223-229: the parent map is built and the cache starts empty.
BuildParentMap ==
    /\ pc = "start"
    /\ parent_map' = ParentMapOf(df)
    /\ thread_root_cache' = <<>>
    /\ row' = 1
    /\ pc' = "apply"
    /\ UNCHANGED <<df, walk, thread_id>>

\* find_thread_root on a cached id returns the cached root at once.
FindCached ==
    /\ pc = "apply"
    /\ row <= Len(df)
    /\ df[row].id_str \in DOMAIN thread_root_cache
    /\ thread_id' = [thread_id EXCEPT ![row] = thread_root_cache[df[row].id_str]]
    /\ row' = row + 1
    /\ UNCHANGED <<df, parent_map, thread_root_cache, walk, pc>>

\* find_thread_root on an uncached id starts a walk at the id itself.
FindStart ==
    /\ pc = "apply"
    /\ row <= Len(df)
    /\ df[row].id_str \notin DOMAIN thread_root_cache
    /\ walk' = WalkInit(df[row].id_str)
    /\ pc' = "while"
    /\ UNCHANGED <<df, parent_map, thread_root_cache, thread_id, row>>

\* One iteration of the while loop.
WhileIter ==
    /\ pc = "while"
    /\ LoopCond(parent_map, walk)
    /\ walk' = WhileBody(parent_map, walk)
    /\ UNCHANGED <<df, parent_map, thread_root_cache, thread_id, row, pc>>

\* The loop is left (no parent, or the break); the root is the end of the
\* path, the path's nodes are cached and the row gets its thread_id.
WhileExit ==
    /\ pc = "while"
    /\ ~LoopCond(parent_map, walk)
    /\ thread_root_cache' = CacheAfter(thread_root_cache, walk)
    /\ thread_id' = [thread_id EXCEPT ![row] = Last(walk.path)]
    /\ row' = row + 1
    /\ pc' = "apply"
    /\ UNCHANGED <<df, parent_map, walk>>

\* The apply has visited every row.
ApplyDone ==
    /\ pc = "apply"
    /\ row > Len(df)
    /\ pc' = "done"
    /\ UNCHANGED <<df, parent_map, thread_root_cache, walk, thread_id, row>>

(***************************************************************************)
(* engineer_features: rows and cells                                       *)
(*                                                                         *)
(* A row is a function from the names of the table's columns to cells. A   *)
(* cell is a record with one field that tells its type:                    *)
(*   [na |-> "NaN"], [na |-> "None"]   a null cell (pd.notna is false)     *)
(*   [bool |-> b]                      a boolean                           *)
(*   [str |-> <<c1, ..., cn>>]         a string, by its characters         *)
(*   [dict |-> d]                      a nested object                     *)
(*   [list |-> <<e1, ..., en>>]        a list                              *)
(*   [id |-> "..."]                    a string that is an identifier or a *)
(*                                     screen name                         *)
(*   [int |-> n], [float |-> n]        an integer, a float with value n    *)
(***************************************************************************)
NaN == [na |-> "NaN"]

PyNone == [na |-> "None"]

\* Marks a column the table does not have, while a row is being put together.
Absent == [absent |-> TRUE]

\* MY_USER_ID as the module sets it, and the placeholder that asks for the
\* identifier to be inferred.
MY_USER_ID_SET == "707078994852622336"

MY_USER_ID_PLACEHOLDER == "YOUR_USER_ID_HERE"

MY_SCREEN_NAME == "christophcsmith"

\* The settings and the argument when the self-identifier plays no part.
UserDefault ==
    /\ MY_USER_ID = MY_USER_ID_SET
    /\ my_user_id = PyNone
    /\ resolved_user_id = PyNone

(***************************************************************************)
(* engineer_features: timestamps and the account tier                      *)
(***************************************************************************)
\* NaT, the null timestamp that errors='coerce' produces.
NaT == -1

\* A created_at cell that is present but does not parse as a date.
Unparsable == [text |-> "not a date"]

\* A created_at cell that is missing (None / NaN).
NoDate == [text |-> "NaN"]

\* The days from 1970-01-01 to the civil date y-m-d (proleptic Gregorian).
DaysFromCivil(y, m, d) ==
    LET yy == IF m <= 2 THEN y - 1 ELSE y
        era == yy \div 400
        yoe == yy - era * 400
        mp == IF m > 2 THEN m - 3 ELSE m + 9
        doy == (153 * mp + 2) \div 5 + d - 1
        doe == yoe * 365 + yoe \div 4 - yoe \div 100 + doy
    IN era * 146097 + doe - 719468

\* pd.to_datetime(cell, errors='coerce', utc=True): the UTC instant of a
\* parsable cell, in seconds since the epoch (its UTC offset, in hours, is
\* subtracted); NaT for a missing or unparsable cell.
ToDatetimeUtc(cell) ==
    IF cell = NoDate \/ cell = Unparsable
    THEN NaT
    ELSE DaysFromCivil(cell.y, cell.mo, cell.d) * 86400
            + cell.h * 3600 + cell.mi * 60 + cell.s - cell.off * 3600

\* TIER_UPGRADED_START = "2023-09-12", TIER_POST_UPGRADE_START = "2024-09-12".
TIER_UPGRADED_START == [y |-> 2023, mo |-> 9, d |-> 12]

TIER_POST_UPGRADE_START == [y |-> 2024, mo |-> 9, d |-> 12]

\* pd.Timestamp(date_string, tz=...): midnight at the start of the date.
DateTimestamp(date) == DaysFromCivil(date.y, date.mo, date.d) * 86400

\* Comparisons of timestamps: every comparison with NaT is false.
TsLt(a, b) == a /= NaT /\ b /= NaT /\ a < b

TsLe(a, b) == a /= NaT /\ b /= NaT /\ a <= b

\* assign_tier with the upgraded tier ending before TIER_POST_UPGRADE_START.
AssignTierExclusiveEnd(ts) ==
    LET tier_start == DateTimestamp(TIER_UPGRADED_START)
        tier_end == DateTimestamp(TIER_POST_UPGRADE_START)
    IN IF TsLt(ts, tier_start) THEN "tier_pre_upgrade"
       ELSE IF TsLe(tier_start, ts) /\ TsLt(ts, tier_end) THEN "tier_upgraded"
       ELSE "tier_post_upgrade"

\* assign_tier(ts).
AssignTier(ts) ==
    LET tier_start == DateTimestamp(TIER_UPGRADED_START)
        tier_end == DateTimestamp(TIER_POST_UPGRADE_START)
    IN IF TsLt(ts, tier_start) THEN "tier_pre_upgrade"
       ELSE IF TsLe(tier_start, ts) /\ TsLe(ts, tier_end) THEN "tier_upgraded"
       ELSE "tier_post_upgrade"

\* The created_at cells of the model: the days around the two cutovers, at
\* the start, the second second, the second hour and the last second of the
\* day, written in UTC or with a +01:00 offset; or unparsable; or missing.
CreatedAtCells ==
    {[y |-> dt[1], mo |-> dt[2], d |-> dt[3],
      h |-> tm[1], mi |-> tm[2], s |-> tm[3], off |-> o] :
        dt \in {<<2023, 9, 11>>, <<2023, 9, 12>>, <<2024, 9, 12>>},
        tm \in {<<0, 0, 0>>, <<0, 0, 1>>, <<1, 0, 0>>, <<23, 59, 59>>},
        o \in {0, 1}}
    \cup {Unparsable, NoDate}

TierTables ==
    UNION {[1..n -> [created_at : CreatedAtCells]] : n \in 1..MaxTierRows}

\* The order sort_index leaves: ascending, NaT last.
IndexLe(a, b) == b = NaT \/ (a /= NaT /\ a <= b)

\* The index is ascending and has no NaT: sort_index leaves such a table as
\* it is.
IsMonotonicIncreasing(kind, index) ==
    /\ kind = "post_datetime" => \A i \in DOMAIN index : index[i] /= NaT
    /\ \A i, j \in DOMAIN index : i < j => index[i] <= index[j]

\* The orders sort_index() can put the rows under the labels `index` in:
\* none other than the present one when the index is already ascending;
\* otherwise ascending with the NaT rows last in their present order, rows
\* with equal labels in either order (the default sort is not stable).
SortOrders(kind, index) ==
    IF IsMonotonicIncreasing(kind, index)
    THEN {[i \in DOMAIN index |-> i]}
    ELSE {p \in Perms(Len(index)) :
            \A i \in 1..(Len(index) - 1) :
                IF kind = "post_datetime"
                THEN /\ IndexLe(index[p[i]], index[p[i + 1]])
                     /\ (index[p[i]] = NaT => p[i] < p[i + 1])
                ELSE index[p[i]] <= index[p[i + 1]]}

\* set_index('post_datetime') without sort_index(): the rows stay as they are.
Unsorted(rows) == {[i \in DOMAIN rows |-> i]}

\* The row orders in which set_index('post_datetime').sort_index() can leave
\* a table.
SortedOrders(rows) ==
    SortOrders("post_datetime", [i \in DOMAIN rows |-> rows[i].post_datetime])

\* The record r with the column c set to v.
WithColumn(r, c, v) ==
    [k \in DOMAIN r \cup {c} |-> IF k = c THEN v ELSE r[k]]

TierInit ==
    /\ df_eng \in TierTables
    /\ stage = "copied"
    /\ UserDefault

\* normalize_datetime: post_datetime is parsed from created_at, becomes the
\* index and the table is sorted by it.
NormalizeDatetime ==
    /\ stage = "copied"
    /\ LET parsed == [i \in DOMAIN df_eng |->
                        WithColumn(df_eng[i], "post_datetime",
                                   ToDatetimeUtc(df_eng[i].created_at))]
       IN \E p \in SortedOrders(parsed) :
            df_eng' = [i \in DOMAIN parsed |-> parsed[p[i]]]
    /\ stage' = "normalized"
    /\ UNCHANGED userVars

\* df_eng['account_tier'] = df_eng.index.to_series().apply(assign_tier)
AccountTier ==
    /\ stage = "normalized"
    /\ df_eng' = [i \in DOMAIN df_eng |->
                    WithColumn(df_eng[i], "account_tier",
                               AssignTier(df_eng[i].post_datetime))]
    /\ stage' = "tiered"
    /\ UNCHANGED userVars

(***************************************************************************)
(* engineer_features: the detection flags                                  *)
(***************************************************************************)
IsNa(cell) == "na" \in DOMAIN cell

IsStr(cell) == "str" \in DOMAIN cell

\* isinstance(cell, dict)
IsDict(cell) == "dict" \in DOMAIN cell

\* isinstance(cell, list)
IsList(cell) == "list" \in DOMAIN cell

BoolCell(b) == [bool |-> b]

StrCell(chars) == [str |-> chars]

\* row.get(col): the cell, or None when the row has no such column.
Get(r, col) == IF col \in DOMAIN r THEN r[col] ELSE PyNone

\* `col in row and pd.notna(row[col])`
HasValue(r, col) == col \in DOMAIN r /\ ~IsNa(r[col])

\* Python's truth value of a cell: None, "" and {} are false; NaN is a float
\* other than zero and so true.
Truthy(cell) ==
    IF cell = PyNone THEN FALSE
    ELSE IF cell = NaN THEN TRUE
    ELSE IF IsStr(cell) THEN cell.str /= <<>>
    ELSE IF IsDict(cell) THEN cell.dict.urls_key /= "absent" \/ cell.dict.other_keys
    ELSE IF IsList(cell) THEN cell.list /= <<>>
    ELSE cell.bool

\* text.startswith(prefix), on character sequences.
StartsWith(chars, prefix) ==
    /\ Len(chars) >= Len(prefix)
    /\ SubSeq(chars, 1, Len(prefix)) = prefix

RT_PREFIX == <<"R", "T", " ", "@">>

\* a or b or c or d or '' (line 170).
TextOf(r) ==
    LET a == Get(r, "full_text")
        b == Get(r, "text")
        c == Get(r, "tweet.full_text")
        d == Get(r, "tweet.text")
    IN IF Truthy(a) THEN a
       ELSE IF Truthy(b) THEN b
       ELSE IF Truthy(c) THEN c
       ELSE IF Truthy(d) THEN d
       ELSE StrCell(<<>>)

\* detect_retweet with the nested object looked at before the explicit flag.
DetectRetweetStructuralFirst(r) ==
    IF IsDict(Get(r, "retweeted_status")) \/ IsDict(Get(r, "tweet.retweeted_status"))
    THEN TRUE
    ELSE IF HasValue(r, "retweeted") THEN r["retweeted"].bool
    ELSE IF HasValue(r, "tweet.retweeted") THEN r["tweet.retweeted"].bool
    ELSE IsStr(TextOf(r)) /\ StartsWith(TextOf(r).str, RT_PREFIX)

\* detect_retweet(row).
DetectRetweet(r) ==
    IF HasValue(r, "retweeted") THEN r["retweeted"].bool
    ELSE IF HasValue(r, "tweet.retweeted") THEN r["tweet.retweeted"].bool
    ELSE IF IsDict(Get(r, "retweeted_status")) \/ IsDict(Get(r, "tweet.retweeted_status"))
    THEN TRUE
    ELSE IsStr(TextOf(r)) /\ StartsWith(TextOf(r).str, RT_PREFIX)

\* get_dict(obj): obj if it is a dict, else {}.
EmptyDict == [dict |-> [urls_key |-> "absent", urls |-> <<>>, other_keys |-> FALSE]]

GetDict(cell) == IF IsDict(cell) THEN cell ELSE EmptyDict

\* entities.get('urls', []) or []
UrlsOf(entities) ==
    IF entities.dict.urls_key = "list" THEN entities.dict.urls ELSE <<>>

\* u.get('expanded_url') or ''; a URL is the sequence of its parts.
ExpandedOf(u) == IF IsNa(u.expanded_url) THEN <<>> ELSE u.expanded_url.str

\* `part in expanded`
Contains(expanded, part) == \E k \in DOMAIN expanded : expanded[k] = part

\* 'twitter.com' in expanded and '/status/' in expanded
IsStatusLink(u) ==
    /\ Contains(ExpandedOf(u), "twitter.com")
    /\ Contains(ExpandedOf(u), "/status/")

\* detect_quote(row).
DetectQuote(r) ==
    IF HasValue(r, "is_quote_status") THEN r["is_quote_status"].bool
    ELSE IF HasValue(r, "tweet.is_quote_status") THEN r["tweet.is_quote_status"].bool
    ELSE IF HasValue(r, "quoted_status_id_str") \/ HasValue(r, "tweet.quoted_status_id_str")
    THEN TRUE
    ELSE LET first == GetDict(Get(r, "entities"))
             entities == IF Truthy(first) THEN first
                         ELSE GetDict(Get(r, "tweet.entities.urls"))
             urls == UrlsOf(entities)
         IN \E k \in DOMAIN urls : IsStatusLink(urls[k])

\* ---- the rows of the model ----
TextRT == StrCell(<<"R", "T", " ", "@", "a">>)

TextHi == StrCell(<<"h", "i">>)

\* "RT @" not at the start of the text.
TextLateRT == StrCell(<<"h", "i", " ", "R", "T", " ", "@", "a">>)

TextEmpty == StrCell(<<>>)

NestedStatus == [dict |-> [urls_key |-> "absent", urls |-> <<>>, other_keys |-> TRUE]]

Url(parts) == [expanded_url |-> StrCell(parts)]

StatusUrl == Url(<<"https://", "twitter.com", "/alice", "/status/", "1">>)

ProfileUrl == Url(<<"https://", "twitter.com", "/alice">>)

ForeignStatusUrl == Url(<<"https://", "example.com", "/status/", "1">>)

NoExpandedUrl == [expanded_url |-> PyNone]

UrlLists ==
    {<<>>, <<StatusUrl>>, <<ProfileUrl>>, <<ProfileUrl, StatusUrl>>,
     <<ForeignStatusUrl>>, <<NoExpandedUrl>>}

EntitiesDict(urls) == [dict |-> [urls_key |-> "list", urls |-> urls, other_keys |-> TRUE]]

\* 'entities' cells: a dict with a urls list, {"urls": None}, a dict with
\* other keys only, {}, or null.
EntitiesCells ==
    {EntitiesDict(u) : u \in UrlLists}
    \cup {[dict |-> [urls_key |-> "none", urls |-> <<>>, other_keys |-> TRUE]],
          [dict |-> [urls_key |-> "absent", urls |-> <<>>, other_keys |-> TRUE]],
          EmptyDict, NaN}

\* 'tweet.entities.urls' cells: what json_normalize leaves there, a list.
DottedUrlsCells ==
    {[list |-> u] : u \in {<<>>, <<StatusUrl>>, <<ProfileUrl>>, <<ProfileUrl, StatusUrl>>}}
    \cup {NaN}

Flags == {BoolCell(TRUE), BoolCell(FALSE)}

IdCell == StrCell(<<"1", "2", "3">>)

\* The row made of the <<column name, cell>> pairs whose cell is not Absent.
MkRow(pairs) ==
    LET present == {k \in DOMAIN pairs : pairs[k][2] /= Absent}
    IN [c \in {pairs[k][1] : k \in present} |->
            pairs[CHOOSE k \in present : pairs[k][1] = c][2]]

\* Rows that vary in the columns detect_retweet reads.
RetweetRows ==
    {MkRow(<<<<"retweeted", a>>, <<"tweet.retweeted", b>>,
             <<"retweeted_status", c>>, <<"tweet.retweeted_status", d>>,
             <<"full_text", e>>, <<"text", f>>,
             <<"tweet.full_text", g>>, <<"tweet.text", h>>>>) :
        a \in Flags \cup {NaN, Absent},
        b \in Flags \cup {Absent},
        c \in {NestedStatus, NaN, Absent},
        d \in {NestedStatus, Absent},
        e \in {TextRT, TextHi, TextLateRT, TextEmpty, PyNone, NaN, Absent},
        f \in {TextRT, TextHi, Absent},
        g \in {TextRT, Absent},
        h \in {TextRT, Absent}}

\* Rows that vary in the columns detect_quote reads.
QuoteRows ==
    {MkRow(<<<<"full_text", TextHi>>,
             <<"is_quote_status", a>>, <<"tweet.is_quote_status", b>>,
             <<"quoted_status_id_str", c>>, <<"tweet.quoted_status_id_str", d>>,
             <<"entities", e>>, <<"tweet.entities.urls", f>>>>) :
        a \in Flags \cup {NaN, Absent},
        b \in Flags \cup {Absent},
        c \in {IdCell, NaN, Absent},
        d \in {IdCell, NaN, Absent},
        e \in EntitiesCells \cup {Absent},
        f \in DottedUrlsCells \cup {Absent}}

DetectInit ==
    /\ df_eng \in {<<r>> : r \in RetweetRows \cup QuoteRows}
    /\ stage = "normalized"
    /\ UserDefault

\* df_eng['is_retweet'] = df_eng.apply(detect_retweet, axis=1)
IsRetweetColumn ==
    /\ stage = "normalized"
    /\ df_eng' = [i \in DOMAIN df_eng |->
                    WithColumn(df_eng[i], "is_retweet", DetectRetweet(df_eng[i]))]
    /\ stage' = "is_retweet"
    /\ UNCHANGED userVars

\* df_eng['is_quote_tweet'] = df_eng.apply(detect_quote, axis=1)
IsQuoteTweetColumn ==
    /\ stage = "is_retweet"
    /\ df_eng' = [i \in DOMAIN df_eng |->
                    WithColumn(df_eng[i], "is_quote_tweet", DetectQuote(df_eng[i]))]
    /\ stage' = "is_quote_tweet"
    /\ UNCHANGED userVars

(***************************************************************************)
(* engineer_features: the self-identifier and the reply type               *)
(***************************************************************************)
IdStr(x) == [id |-> x]

\* str(cell) / Series.astype(str): a string is itself, a null becomes the
\* text "nan" or "None", an integer its digits and a float its digits and ".0".
DigitStr(n) ==
    CASE n = 0 -> "0" [] n = 1 -> "1" [] n = 2 -> "2" [] n = 3 -> "3"
      [] n = 4 -> "4" [] n = 5 -> "5" [] n = 6 -> "6" [] n = 7 -> "7"
      [] n = 8 -> "8" [] n = 9 -> "9"

FloatStr(n) ==
    CASE n = 0 -> "0.0" [] n = 1 -> "1.0" [] n = 2 -> "2.0" [] n = 3 -> "3.0"
      [] n = 4 -> "4.0" [] n = 5 -> "5.0" [] n = 6 -> "6.0" [] n = 7 -> "7.0"
      [] n = 8 -> "8.0" [] n = 9 -> "9.0"

Str(cell) ==
    IF cell = NaN THEN "nan"
    ELSE IF cell = PyNone THEN "None"
    ELSE IF "int" \in DOMAIN cell THEN DigitStr(cell.int)
    ELSE IF "float" \in DOMAIN cell THEN FloatStr(cell.float)
    ELSE cell.id

\* str.lower() on the screen names of the model.
Lower(name) ==
    CASE name = "ChristophCSmith" -> "christophcsmith"
      [] name = "Alice" -> "alice"
      [] OTHER -> name

\* The strings of the model in ascending order, as Python compares strings.
StrOrder == <<"", "7", "7.0", "707078994852622336", "None", "nan">>

StrRank(x) == CHOOSE k \in DOMAIN StrOrder : StrOrder[k] = x

\* The values that occur most often among the cells of column col in the
\* rows idxs, each cell taken as the string `str` gives it.
MostFrequent(tbl, idxs, col) ==
    LET count(v) == Cardinality({i \in idxs : Str(tbl[i][col]) = v})
        values == {Str(tbl[i][col]) : i \in idxs}
    IN {v \in values : \A w \in values : count(w) <= count(v)}

\* Series.mode().iat[0]: the modes come sorted, the first is the smallest.
ModeFirst(tbl, idxs, col) ==
    CHOOSE v \in MostFrequent(tbl, idxs, col) :
        \A w \in MostFrequent(tbl, idxs, col) : StrRank(v) <= StrRank(w)

ScreenColCandidates == <<"user.screen_name", "user.screen_name_str", "screen_name">>

IdColCandidates == <<"user.id_str", "user.id">>

Returned(x) == [raised |-> FALSE, value |-> x]

Raised == [raised |-> TRUE, value |-> ""]

\* infer_my_user_id(df, username_hint): the values it can return, or Raised.
\* value_counts().idxmax() returns one of the most frequent values; which
\* one among equally frequent values depends on the sort inside value_counts.
InferMyUserId(tbl, username_hint) ==
    LET cols == DOMAIN tbl[1]
        hint == Lower(IF username_hint /= "" THEN username_hint ELSE MY_SCREEN_NAME)
        mask(sc) == {i \in DOMAIN tbl : Lower(Str(tbl[i][sc])) = hint}
        hits == {k \in DOMAIN ScreenColCandidates :
                    /\ ScreenColCandidates[k] \in cols
                    /\ mask(ScreenColCandidates[k]) /= {}}
        idcols == {k \in DOMAIN IdColCandidates : IdColCandidates[k] \in cols}
        first(set) == CHOOSE k \in set : \A j \in set : k <= j
        replying == IF "in_reply_to_user_id_str" \in cols
                    THEN {i \in DOMAIN tbl : ~IsNa(tbl[i]["in_reply_to_user_id_str"])}
                    ELSE {}
    IN IF hint /= "" /\ hits /= {} /\ idcols /= {}
       THEN {Returned(ModeFirst(tbl, mask(ScreenColCandidates[first(hits)]),
                                IdColCandidates[first(idcols)]))}
       ELSE IF idcols /= {}
       THEN {Returned(v) : v \in MostFrequent(tbl, DOMAIN tbl, IdColCandidates[first(idcols)])}
       ELSE IF replying /= {}
       THEN {Returned(v) : v \in MostFrequent(tbl, replying, "in_reply_to_user_id_str")}
       ELSE {Raised}

ReplyColCandidates ==
    <<"in_reply_to_user_id_str", "tweet.in_reply_to_user_id_str",
      "in_reply_to_user_id", "tweet.in_reply_to_user_id">>

\* Lines 337-347: the column that holds the reply-target user id.
ReplyUserCol(tbl) ==
    LET present == {k \in DOMAIN ReplyColCandidates :
                        ReplyColCandidates[k] \in DOMAIN tbl[1]}
    IN IF present = {}
       THEN "reply_user_col_tmp"
       ELSE ReplyColCandidates[CHOOSE k \in present : \A j \in present : k <= j]

\* Python's truth value of an identifier: None and "" are false.
TruthyId(x) == x /= PyNone /\ x /= IdStr("")

\* Line 349: my_user_id or (None if MY_USER_ID == "YOUR_USER_ID_HERE" else
\* MY_USER_ID).
ConfiguredUserId(arg, setting) ==
    IF TruthyId(arg) THEN arg
    ELSE IF setting = MY_USER_ID_PLACEHOLDER THEN PyNone
    ELSE IdStr(setting)

\* classify_reply that compares the cell with the identifier as they are.
ClassifyReplyNoCoercion(r, reply_user_col, resolved) ==
    LET val == Get(r, reply_user_col)
    IN IF IsNa(val) THEN "none"
       ELSE IF val = resolved /\ TruthyId(resolved) THEN "reply_own"
       ELSE "reply_other"

\* classify_reply that does not ask for a non-empty identifier.
ClassifyReplyNoGuard(r, reply_user_col, resolved) ==
    LET val == Get(r, reply_user_col)
    IN IF IsNa(val) THEN "none"
       ELSE IF Str(val) = Str(resolved) THEN "reply_own"
       ELSE "reply_other"

\* classify_reply(row).
ClassifyReply(r, reply_user_col, resolved) ==
    LET val == Get(r, reply_user_col)
    IN IF IsNa(val) THEN "none"
       ELSE IF Str(val) = Str(resolved) /\ TruthyId(resolved) THEN "reply_own"
       ELSE "reply_other"

\* ---- the tables of the model ----
ScreenCells == {IdStr("ChristophCSmith"), IdStr("Alice")}

AuthorIdCells == {IdStr(MY_USER_ID_SET), IdStr("7"), NaN}

ReplyStrCells == {IdStr(MY_USER_ID_SET), IdStr("7"), IdStr(""), NaN}

ReplyNumCells == {[int |-> 7], [float |-> 7], NaN}

\* The rows of the tables that have the columns of one choice: whether there
\* is a screen-name column, whether there is an author-id column, and which
\* reply-target column there is, if any.
ReplyRows(has_screen, has_id, reply_col) ==
    {MkRow(<<<<"user.screen_name", a>>, <<"user.id_str", b>>, <<reply_col, c>>>>) :
        a \in IF has_screen THEN ScreenCells ELSE {Absent},
        b \in IF has_id THEN AuthorIdCells ELSE {Absent},
        c \in IF reply_col = "none" THEN {Absent}
              ELSE IF reply_col = "in_reply_to_user_id" THEN ReplyNumCells
              ELSE ReplyStrCells}

ReplyTables ==
    UNION {[1..n -> ReplyRows(hs, hi, rc)] :
            n \in 1..MaxReplyRows, hs \in BOOLEAN, hi \in BOOLEAN,
            rc \in {"in_reply_to_user_id_str", "tweet.in_reply_to_user_id_str",
                    "in_reply_to_user_id", "none"}}

ReplyInit ==
    /\ df_eng \in ReplyTables
    /\ stage = "content"
    /\ MY_USER_ID \in {MY_USER_ID_SET, MY_USER_ID_PLACEHOLDER}
    /\ my_user_id \in {PyNone, IdStr(""), IdStr("7")}
    /\ resolved_user_id = PyNone

\* Lines 337-354: the reply-target column is chosen (a column of nulls is
\* added when the table has none) and the self-identifier is resolved: the
\* argument or the setting, else inferred from the table, else "".
ResolveUserId ==
    /\ stage = "content"
    /\ df_eng' = IF ReplyUserCol(df_eng) = "reply_user_col_tmp"
                 THEN [i \in DOMAIN df_eng |->
                        WithColumn(df_eng[i], "reply_user_col_tmp", NaN)]
                 ELSE df_eng
    /\ IF ConfiguredUserId(my_user_id, MY_USER_ID) /= PyNone
       THEN resolved_user_id' = ConfiguredUserId(my_user_id, MY_USER_ID)
       ELSE \E out \in InferMyUserId(df_eng', MY_SCREEN_NAME) :
                resolved_user_id' = IdStr(out.value)
    /\ stage' = "resolved"
    /\ UNCHANGED <<MY_USER_ID, my_user_id>>

\* df_eng['reply_type'] = df_eng.apply(classify_reply, axis=1)
ReplyTypeColumn ==
    /\ stage = "resolved"
    /\ df_eng' = [i \in DOMAIN df_eng |->
                    WithColumn(df_eng[i], "reply_type",
                               ClassifyReply(df_eng[i], ReplyUserCol(df_eng),
                                             resolved_user_id))]
    /\ stage' = "reply_type"
    /\ UNCHANGED userVars

(***************************************************************************)
(* Tables as objects                                                       *)
(*                                                                         *)
(* A call receives a reference to the caller's table. `heap` holds the     *)
(* table objects; a table is its index labels and its rows, position by    *)
(* position. An assignment to a column changes the object a reference      *)
(* points to; copy() and loc[] make a new object.                          *)
(***************************************************************************)
Table(kind, index, rows) == [index_kind |-> kind, index |-> index, rows |-> rows]

\* A new object holding the table t: the heap after it and its reference.
Alloc(h, t) == [heap |-> Append(h, t), ref |-> Len(h) + 1]

\* A copy() that hands back the object it was given.
CopyAlias(h, ref) == [heap |-> h, ref |-> ref]

\* df.copy(): a new object with the same index and rows.
Copy(h, ref) == Alloc(h, h[ref])

\* The positions 1..n at which mask holds, in ascending order.
RECURSIVE PositionsWhere(_, _)
PositionsWhere(mask, n) ==
    IF n = 0 THEN <<>>
    ELSE IF mask[n] THEN Append(PositionsWhere(mask, n - 1), n)
    ELSE PositionsWhere(mask, n - 1)

\* df.loc[mask]: the rows at which the boolean mask holds, with their labels.
Loc(t, mask) ==
    LET pos == PositionsWhere(mask, Len(t.rows))
    IN Table(t.index_kind,
             [k \in DOMAIN pos |-> t.index[pos[k]]],
             [k \in DOMAIN pos |-> t.rows[pos[k]]])

NoReturn == [kind |-> "none", ref |-> 0]

Returned_(ref) == [kind |-> "returned", ref |-> ref]

CallsIdle ==
    /\ heap = <<>>
    /\ fn = "none"
    /\ at = "idle"
    /\ df_arg = 0
    /\ local = 0
    /\ ret = NoReturn

(***************************************************************************)
(* create_core_sample                                                      *)
(***************************************************************************)
\* The mask with reply_own let through as well.
CoreMaskAnyReply(r) ==
    /\ ~r["is_retweet"]
    /\ ~r["is_quote_tweet"]
    /\ r["reply_type"] \in {"none", "reply_other", "reply_own"}

\* (~is_retweet) & (~is_quote_tweet) & reply_type.isin(['none', 'reply_other'])
CoreMask(r) ==
    /\ ~r["is_retweet"]
    /\ ~r["is_quote_tweet"]
    /\ r["reply_type"] \in {"none", "reply_other"}

\* create_core_sample that leaves out the first row it selected.
CreateCoreSampleTail(h, ref) ==
    LET t == h[ref]
        mask == [i \in DOMAIN t.rows |-> CoreMask(t.rows[i])]
        first == PositionsWhere(mask, Len(t.rows))
        tail == [i \in DOMAIN t.rows |-> mask[i] /\ i /= first[1]]
        selected == Alloc(h, Loc(t, tail))
    IN Copy(selected.heap, selected.ref)

\* create_core_sample(df): df.loc[mask].copy(). The heap after the call and
\* the reference it returns.
CreateCoreSample(h, ref) ==
    LET t == h[ref]
        mask == [i \in DOMAIN t.rows |-> CoreMask(t.rows[i])]
        selected == Alloc(h, Loc(t, mask))
    IN Copy(selected.heap, selected.ref)

\* A row of a feature-engineered table, in the columns the filter reads and
\* the reply target its reply_type comes from (the self-identifier being
\* MY_USER_ID); the row at position i has the id i.
FeatureRow(i, is_retweet, is_quote_tweet, target) ==
    LET raw == ("id_str" :> IdStr(DigitStr(i))) @@ ("full_text" :> TextHi)
                @@ ("in_reply_to_user_id_str" :> target)
    IN raw @@ ("is_retweet" :> is_retweet) @@ ("is_quote_tweet" :> is_quote_tweet)
           @@ ("reply_type" :> ClassifyReply(raw, "in_reply_to_user_id_str",
                                             IdStr(MY_USER_ID_SET)))

FeatureRowsAt(i) ==
    {FeatureRow(i, a, b, c) :
        a \in BOOLEAN, b \in BOOLEAN, c \in {NaN, IdStr(MY_USER_ID_SET), IdStr("7")}}

\* Feature-engineered tables of 0..MaxCoreRows rows, indexed by the rows'
\* timestamps (row i at second i).
FeatureTables ==
    UNION {{Table("post_datetime", [i \in 1..n |-> i], rows) :
                rows \in {t \in [1..n -> UNION {FeatureRowsAt(i) : i \in 1..n}] :
                            \A i \in 1..n : t[i] \in FeatureRowsAt(i)}} :
           n \in 0..MaxCoreRows}

CoreSampleInit ==
    /\ heap \in {<<t>> : t \in FeatureTables}
    /\ fn = "create_core_sample"
    /\ at = "entry"
    /\ df_arg = 1
    /\ local = 0
    /\ ret = NoReturn

\* The caller's call create_core_sample(df).
CallCreateCoreSample ==
    /\ fn = "create_core_sample"
    /\ at = "entry"
    /\ LET out == CreateCoreSample(heap, df_arg)
       IN /\ heap' = out.heap
          /\ ret' = Returned_(out.ref)
    /\ at' = "returned"
    /\ UNCHANGED <<fn, df_arg, local>>

\* The caller passes the table it got back to create_core_sample again.
CallCreateCoreSampleAgain ==
    /\ fn = "create_core_sample"
    /\ at = "returned"
    /\ LET out == CreateCoreSample(heap, ret.ref)
       IN /\ heap' = out.heap
          /\ ret' = Returned_(out.ref)
    /\ df_arg' = ret.ref
    /\ at' = "returned_again"
    /\ UNCHANGED <<fn, local>>

(***************************************************************************)
(* Tables: columns, series and index alignment                             *)
(***************************************************************************)
\* The columns of a table (every row has the same columns).
Columns(t) == IF t.rows = <<>> THEN {} ELSE DOMAIN t.rows[1]

\* df[col] = values, the values given position by position (an array, an
\* Index, or a Series that has the table's own index).
AssignColumn(t, col, values) ==
    [t EXCEPT !.rows = [i \in DOMAIN t.rows |-> WithColumn(t.rows[i], col, values[i])]]

\* A Series: its index labels and its values, position by position.
Series(kind, index, values) == [index_kind |-> kind, index |-> index, values |-> values]

\* The Series a table's column is, or one computed from it row by row.
SeriesOf(t, values) == Series(t.index_kind, t.index, values)

\* No label occurs twice.
IsUnique(index) == \A i, j \in DOMAIN index : index[i] = index[j] => i = j

\* df[col] = series: the series is aligned with the table's index. With an
\* equal index (or an empty table) the values go in position by position;
\* otherwise the series is reindexed by the table's labels, which fails when
\* the series has a label twice and gives NaN for a label it does not have.
\* The labels of a RangeIndex and of a DatetimeIndex are never equal.
AssignSeries(t, col, s) ==
    IF (s.index_kind = t.index_kind /\ s.index = t.index) \/ t.index = <<>>
    THEN [raised |-> FALSE, table |-> AssignColumn(t, col, s.values)]
    ELSE IF ~IsUnique(s.index)
    THEN [raised |-> TRUE, table |-> t]
    ELSE LET at_label(l) ==
                IF s.index_kind = t.index_kind /\ \E k \in DOMAIN s.index : s.index[k] = l
                THEN s.values[CHOOSE k \in DOMAIN s.index : s.index[k] = l]
                ELSE NaN
         IN [raised |-> FALSE,
             table |-> AssignColumn(t, col, [i \in DOMAIN t.rows |-> at_label(t.index[i])])]

\* What a call gives back: the heap it leaves and a table or an exception.
Outcome(h, kind, ref) == [heap |-> h, kind |-> kind, ref |-> ref]

(***************************************************************************)
(* normalize_datetime                                                      *)
(***************************************************************************)
\* str(c).endswith('created_at'), over the column names of the model.
EndsWithCreatedAt(c) == c \in {"created_at", "tweet.created_at", "user.created_at"}

\* The column post_datetime is parsed from: created_at, else the first of the
\* alternate keys, else a column whose name ends with created_at; "none"
\* when there is no such column.
TimestampColumn(cols) ==
    IF "created_at" \in cols THEN "created_at"
    ELSE IF "tweet.created_at" \in cols THEN "tweet.created_at"
    ELSE IF "time" \in cols THEN "time"
    ELSE IF "date" \in cols THEN "date"
    ELSE IF \E c \in cols : EndsWithCreatedAt(c)
    THEN CHOOSE c \in cols : EndsWithCreatedAt(c)
    ELSE "none"

\* normalize_datetime(df): the outcomes of a call. The copy gets the column
\* post_datetime; set_index(...).sort_index() gives a new table indexed and
\* sorted by it. Without a timestamp column the call raises ValueError.
NormalizeDatetimeCall(h, ref) ==
    LET copied == Copy(h, ref)
        t == copied.heap[copied.ref]
        ts_col == TimestampColumn(Columns(t))
        parsed == AssignColumn(t, "post_datetime",
                               [i \in DOMAIN t.rows |-> ToDatetimeUtc(t.rows[i][ts_col])])
        h1 == [copied.heap EXCEPT ![copied.ref] = parsed]
    IN IF ts_col = "none"
       THEN {Outcome(copied.heap, "raised", 0)}
       ELSE {LET sorted == Table("post_datetime",
                                 [i \in DOMAIN parsed.rows |-> parsed.rows[p[i]]["post_datetime"]],
                                 [i \in DOMAIN parsed.rows |-> parsed.rows[p[i]]])
                 new == Alloc(h1, sorted)
             IN Outcome(new.heap, "returned", new.ref) :
                p \in SortedOrders(parsed.rows)}

(***************************************************************************)
(* reconstruct_threads on a table object                                   *)
(***************************************************************************)
\* The strings that ids are, in the model; an id is handled by its position
\* in this list.
IdStrings == <<"1", "2", "3", "4", "5", "6", "7", "8", "9", "nan", "None">>

IdKey(s) == CHOOSE k \in DOMAIN IdStrings : IdStrings[k] = s

\* The column the ids are taken from (lines 203-213); "none" raises.
IdColumn(cols) ==
    IF "id_str" \in cols THEN "id_str"
    ELSE IF "tweet.id_str" \in cols THEN "tweet.id_str"
    ELSE IF "id" \in cols THEN "id"
    ELSE IF "tweet.id" \in cols THEN "tweet.id"
    ELSE "none"

\* ensure_string_id: the column as strings.
EnsureStringId(t, col) == [i \in DOMAIN t.rows |-> IdStr(Str(t.rows[i][col]))]

\* Lines 216-221: the reply column, copied from the nested name or all null.
ReplyColumnValues(t) ==
    [i \in DOMAIN t.rows |->
        IF "in_reply_to_status_id_str" \in Columns(t)
        THEN t.rows[i]["in_reply_to_status_id_str"]
        ELSE IF "tweet.in_reply_to_status_id_str" \in Columns(t)
        THEN t.rows[i]["tweet.in_reply_to_status_id_str"]
        ELSE NaN]

\* The orders df.sort_index() can put the rows of a table in.
SortIndexOrders(t) == SortOrders(t.index_kind, t.index)

\* groupby(key).cumcount(): for each position, how many earlier positions
\* have the same key.
CumCount(keys) ==
    [k \in DOMAIN keys |-> Cardinality({j \in DOMAIN keys : j < k /\ keys[j] = keys[k]})]

\* reconstruct_threads(df): the outcomes of a call.
ReconstructThreadsCall(h, ref) ==
    LET copied == Copy(h, ref)
        t0 == copied.heap[copied.ref]
        id_col == IdColumn(Columns(t0))
        t1 == AssignColumn(t0, "id_str", EnsureStringId(t0, id_col))
        t2 == AssignColumn(t1, "in_reply_to_status_id_str", ReplyColumnValues(t1))
        \* each row as find_thread_root reads it
        edges == [i \in DOMAIN t2.rows |->
                    [id_str |-> IdKey(t2.rows[i]["id_str"].id),
                     reply |-> IF IsNa(t2.rows[i]["in_reply_to_status_id_str"])
                               THEN None
                               ELSE IdKey(Str(t2.rows[i]["in_reply_to_status_id_str"]))]]
        roots == ThreadIdColumn(edges)
        t3 == AssignColumn(t2, "thread_id", [i \in DOMAIN roots |-> IdStrings[roots[i]]])
    IN IF id_col = "none"
       THEN {Outcome(copied.heap, "raised", 0)}
       ELSE {LET cumcount == Series(t3.index_kind,
                                    [k \in DOMAIN p |-> t3.index[p[k]]],
                                    CumCount([k \in DOMAIN p |-> t3.rows[p[k]]["thread_id"]]))
                 assigned == AssignSeries(t3, "thread_step_index", cumcount)
                 t4 == assigned.table
                 t5 == AssignColumn(t4, "is_thread_starter",
                                    [i \in DOMAIN t4.rows |-> t4.rows[i]["thread_step_index"] = 0])
             IN IF assigned.raised
                THEN Outcome([copied.heap EXCEPT ![copied.ref] = t3], "raised", 0)
                ELSE Outcome([copied.heap EXCEPT ![copied.ref] = t5], "returned", copied.ref) :
                p \in SortIndexOrders(t3)}

(***************************************************************************)
(* engineer_features on a table object                                     *)
(***************************************************************************)
\* A text is the sequence of its pieces: single characters, and the link
\* prefix "https://t.co/" as one piece of 13 characters.
LINK_PREFIX == "https://t.co/"

PieceLen(piece) == IF piece = LINK_PREFIX THEN 13 ELSE 1

RECURSIVE StrLen(_)
StrLen(pieces) ==
    IF pieces = <<>> THEN 0 ELSE PieceLen(Head(pieces)) + StrLen(Tail(pieces))

\* 'full_text' in str(c) or 'text' in str(c), over the column names of the model.
NameHasText(c) ==
    c \in {"full_text", "text", "tweet.full_text", "tweet.text", "note_tweet.text"}

\* Lines 281-295: the text column; "none" raises ValueError.
TextColumn(cols) ==
    IF "full_text" \in cols THEN "full_text"
    ELSE IF "text" \in cols THEN "text"
    ELSE IF "tweet.full_text" \in cols THEN "tweet.full_text"
    ELSE IF "tweet.text" \in cols THEN "tweet.text"
    ELSE IF \E c \in cols : NameHasText(c) THEN CHOOSE c \in cols : NameHasText(c)
    ELSE "none"

\* fillna(""): a null cell becomes the empty string.
FillNaText(cell) == IF IsNa(cell) THEN StrCell(<<>>) ELSE cell

\* has_media_from_extended(x)
HasMediaFromExtended(cell) ==
    IsDict(cell) /\ "media" \in DOMAIN cell.dict /\ cell.dict.media /= <<>>

\* len(get_dict(x).get(key, []) or [])
EntityCount(cell, key) ==
    IF IsDict(cell) /\ key \in DOMAIN cell.dict THEN Len(cell.dict[key]) ELSE 0

\* len(x) if isinstance(x, list) else 0
ListLen(cell) == IF IsList(cell) THEN Len(cell.list) ELSE 0

IntCell(n) == [int |-> n]

\* Lines 316-332: num_hashtags or num_mentions, the column `col`. From the dotted list column
\* when the table has it; else from entities_series, which is the entities
\* column or, without one, pd.Series([{}] * len(df_eng)): a Series with a
\* RangeIndex of its own, aligned with the table's index on assignment.
EntityCountColumn(t, dotted_col, key, col) ==
    IF dotted_col \in Columns(t)
    THEN AssignColumn(t, col,
                      [i \in DOMAIN t.rows |-> IntCell(ListLen(t.rows[i][dotted_col]))])
    ELSE IF "entities" \in Columns(t)
    THEN AssignSeries(t, col,
            SeriesOf(t, [i \in DOMAIN t.rows |->
                            IntCell(EntityCount(t.rows[i]["entities"], key))])).table
    ELSE AssignSeries(t, col,
            Series("RangeIndex", [i \in DOMAIN t.rows |-> i - 1],
                   [i \in DOMAIN t.rows |-> IntCell(EntityCount(EmptyDict, key))])).table

\* The civil year and month of the day z days after 1970-01-01.
CivilFromDays(z) ==
    LET zz == z + 719468
        era == zz \div 146097
        doe == zz - era * 146097
        yoe == (doe - doe \div 1460 + doe \div 36524 - doe \div 146096) \div 365
        doy == doe - (365 * yoe + yoe \div 4 - yoe \div 100)
        mp == (5 * doy + 2) \div 153
        m == IF mp < 10 THEN mp + 3 ELSE mp - 9
    IN [y |-> yoe + era * 400 + (IF m <= 2 THEN 1 ELSE 0), m |-> m]

DayNames ==
    <<"Thursday", "Friday", "Saturday", "Sunday", "Monday", "Tuesday", "Wednesday">>

\* index.day_name(): 1970-01-01 was a Thursday; NaN for NaT.
DayName(ts) == IF ts = NaT THEN NaN ELSE [name |-> DayNames[((ts \div 86400) % 7) + 1]]

\* index.hour; NaN for NaT.
HourOfDay(ts) == IF ts = NaT THEN NaN ELSE IntCell((ts % 86400) \div 3600)

\* index.to_period('M').astype(str); "NaT" for NaT.
MonthOf(ts) == IF ts = NaT THEN [period |-> "NaT"] ELSE CivilFromDays(ts \div 86400)

\* pd.to_numeric(col, errors='coerce').fillna(0).astype(int), on a cell.
ToCount(cell) ==
    IF "int" \in DOMAIN cell THEN cell.int
    ELSE IF "float" \in DOMAIN cell THEN cell.float
    ELSE 0

\* Lines 387-410: likes, retweets, replies, bookmarks; 0 without a column.
CountValues(t, col, nested_col) ==
    [i \in DOMAIN t.rows |->
        IF col \in Columns(t) THEN ToCount(t.rows[i][col])
        ELSE IF nested_col \in Columns(t) THEN ToCount(t.rows[i][nested_col])
        ELSE 0]

WINSORIZE_THRESHOLD == 95

\* The values in ascending order.
SortedValues(values) ==
    LET n == Len(values)
        p == CHOOSE q \in Perms(n) : \A i, j \in 1..n : i < j => values[q[i]] <= values[q[j]]
    IN [i \in 1..n |-> values[p[i]]]

\* Series.quantile(0.95) in hundredths: linear interpolation between the two
\* order statistics around position (n - 1) * 0.95 (counted from 0).
Quantile100(values) ==
    LET n == Len(values)
        sorted == SortedValues(values)
        pos100 == (n - 1) * WINSORIZE_THRESHOLD
        lo == pos100 \div 100
        frac100 == pos100 % 100
        hi == IF frac100 = 0 THEN lo ELSE lo + 1
    IN sorted[lo + 1] * 100 + frac100 * (sorted[hi + 1] - sorted[lo + 1])

\* clip(upper=...) that lets every value through.
ClipNone(x100, upper100) == x100

\* Series.clip(upper=upper_q), on one value; values are in hundredths.
Clip(x100, upper100) == IF x100 > upper100 THEN upper100 ELSE x100

\* Lines 411-415: total_engagement, and winsorized_engagement in hundredths.
EngagementColumns(t) ==
    LET t1 == AssignColumn(t, "likes", CountValues(t, "favorite_count", "tweet.favorite_count"))
        t2 == AssignColumn(t1, "retweets", CountValues(t, "retweet_count", "tweet.retweet_count"))
        t3 == AssignColumn(t2, "replies", CountValues(t, "reply_count", "reply_count"))
        t4 == AssignColumn(t3, "bookmarks", CountValues(t, "bookmark_count", "bookmark_count"))
        total == [i \in DOMAIN t4.rows |->
                    t4.rows[i]["likes"] + t4.rows[i]["retweets"]
                        + t4.rows[i]["replies"] + t4.rows[i]["bookmarks"]]
        t5 == AssignColumn(t4, "total_engagement", total)
        upper_q == Quantile100(total)
    IN AssignColumn(t5, "winsorized_engagement",
                    [i \in DOMAIN total |-> Clip(total[i] * 100, upper_q)])

Raised_ == [kind |-> "raised", ref |-> 0]

\* Lines 349-354: the self-identifiers the call can resolve to.
ResolvedUserIds(rows) ==
    IF ConfiguredUserId(my_user_id, MY_USER_ID) /= PyNone
    THEN {ConfiguredUserId(my_user_id, MY_USER_ID)}
    ELSE {IdStr(out.value) : out \in InferMyUserId(rows, MY_SCREEN_NAME)}

\* ---- the raw tables of the model ----
TextLink == StrCell(<<"h", "i", "?", " ", LINK_PREFIX, "a">>)

EntitiesWithTags ==
    [dict |-> [urls_key |-> "list", urls |-> <<>>, other_keys |-> TRUE,
               hashtags |-> <<"a", "b">>, user_mentions |-> <<"u">>]]

ExtendedEntities == [dict |-> [media |-> <<"photo">>]]

OptionalConcepts == {"counts", "entities", "media", "reply"}

\* Which optional columns a table has: all, all but one, or none.
OptionalSets ==
    {OptionalConcepts, {}} \cup {OptionalConcepts \ {x} : x \in OptionalConcepts}

\* Which columns a raw table has: the name of its timestamp, id and text
\* columns ("none" when it has none) and its optional columns.
RawConfigs ==
    [ts_col : {"created_at", "user.created_at", "none"},
     id_col : {"id_str", "tweet.id", "none"},
     text_col : {"full_text", "note_tweet.text", "none"},
     optional : OptionalSets]

\* The cell (name :> cell) when the column is there.
Cell(there, name, cell) == IF there THEN name :> cell ELSE <<>>

\* The row at position i of a raw table: the tweet with id i, which replies
\* to tweet i - 1 of the same author when i > 1.
RawRow(cfg, i, ts, text) ==
    Cell(cfg.ts_col /= "none", cfg.ts_col, ts)
    @@ Cell(cfg.id_col = "id_str", "id_str", IdStr(DigitStr(i)))
    @@ Cell(cfg.id_col = "tweet.id", "tweet.id", IntCell(i))
    @@ Cell(cfg.text_col /= "none", cfg.text_col, text)
    @@ Cell("counts" \in cfg.optional, "favorite_count", IntCell(i))
    @@ Cell("counts" \in cfg.optional, "retweet_count", IntCell(1))
    @@ Cell("counts" \in cfg.optional, "reply_count", NaN)
    @@ Cell("counts" \in cfg.optional, "bookmark_count", IntCell(0))
    @@ Cell("entities" \in cfg.optional, "entities", EntitiesWithTags)
    @@ Cell("media" \in cfg.optional, "extended_entities", ExtendedEntities)
    @@ Cell("reply" \in cfg.optional, "in_reply_to_user_id_str",
            IF i > 1 THEN IdStr(MY_USER_ID_SET) ELSE NaN)
    @@ Cell("reply" \in cfg.optional, "in_reply_to_status_id_str",
            IF i > 1 THEN IdStr(DigitStr(i - 1)) ELSE NaN)

\* A tweet of 2023-09-12T13:00:00Z, or one without a date.
RawTsCells ==
    {[y |-> 2023, mo |-> 9, d |-> 12, h |-> 13, mi |-> 0, s |-> 0, off |-> 0], NoDate}

RawTextCells == {TextLink, NaN}

\* A raw table, as the loader leaves it: a RangeIndex. Any row may lack its
\* date; the first row may lack its text.
RawTable(cfg, ts, text) ==
    Table("RangeIndex", [i \in DOMAIN ts |-> i - 1],
          [i \in DOMAIN ts |-> RawRow(cfg, i, ts[i], IF i = 1 THEN text ELSE TextLink)])

\* What a favorite_count cell may hold: a count, or no value.
LikeCells == {IntCell(0), IntCell(1), IntCell(9), NaN}

\* A raw table with every column, whose rows differ in their favorite_count.
CountTable(likes) ==
    LET cfg == [ts_col |-> "created_at", id_col |-> "id_str",
                text_col |-> "full_text", optional |-> OptionalConcepts]
        date == [y |-> 2023, mo |-> 9, d |-> 12, h |-> 13, mi |-> 0, s |-> 0, off |-> 0]
    IN Table("RangeIndex", [i \in DOMAIN likes |-> i - 1],
             [i \in DOMAIN likes |->
                [RawRow(cfg, i, date, TextLink) EXCEPT !["favorite_count"] = likes[i]]])

\* What a created_at cell may hold: one of two dates, a text that is not a
\* date, or no value.
DatedCells ==
    {[y |-> 2023, mo |-> 9, d |-> 12, h |-> 13, mi |-> 0, s |-> 0, off |-> 0],
     [y |-> 2024, mo |-> 9, d |-> 12, h |-> 13, mi |-> 0, s |-> 0, off |-> 0],
     Unparsable, NoDate}

\* A raw table with every column, whose rows differ in their created_at.
DatedTable(ts) ==
    LET cfg == [ts_col |-> "created_at", id_col |-> "id_str",
                text_col |-> "full_text", optional |-> OptionalConcepts]
    IN Table("RangeIndex", [i \in DOMAIN ts |-> i - 1],
             [i \in DOMAIN ts |-> RawRow(cfg, i, ts[i], TextLink)])

\* Index labels of a normalized table: seconds, ascending, NaT last.
NormalizedIndexes(n) ==
    {index \in [1..n -> {1, 2, NaT}] :
        \A i, j \in 1..n : i < j => IndexLe(index[i], index[j])}

\* What row i of a normalized table may reply to: nothing or an earlier row;
\* the first row, nothing or a tweet that is not in the table.
ReplyTargets(i) ==
    IF i = 1 THEN {NaN, IdStr("9")} ELSE {NaN} \cup {IdStr(DigitStr(j)) : j \in 1..(i - 1)}

\* A table as normalize_datetime leaves it, with the columns
\* reconstruct_threads reads.
NormalizedTable(index, reply) ==
    Table("post_datetime", index,
          [i \in DOMAIN index |-> ("id_str" :> IdStr(DigitStr(i)))
                                    @@ ("in_reply_to_status_id_str" :> reply[i])])

\* A call on a raw table of 1..MaxCallRows rows, of engineer_features or
\* normalize_datetime on a table of 1..MaxDatedRows rows that differ in their
\* timestamps, or of reconstruct_threads on a normalized table of
\* 1..MaxStepRows rows.
RawCallInit ==
    /\ \/ /\ \E cfg \in RawConfigs, n \in 1..MaxCallRows :
                \E ts \in [1..n -> RawTsCells], text \in RawTextCells :
                    heap = <<RawTable(cfg, ts, text)>>
          /\ fn \in {"engineer_features", "normalize_datetime", "reconstruct_threads"}
       \/ /\ \E n \in 1..MaxCallRows : \E likes \in [1..n -> LikeCells] :
                heap = <<CountTable(likes)>>
          /\ fn = "engineer_features"
       \/ /\ \E n \in 1..MaxDatedRows : \E ts \in [1..n -> DatedCells] :
                heap = <<DatedTable(ts)>>
          /\ fn \in {"engineer_features", "normalize_datetime"}
       \/ /\ \E n \in 1..MaxStepRows :
                \E reply \in [1..n -> ReplyTargets(1) \cup ReplyTargets(n)] :
                    /\ \A i \in 1..n : reply[i] \in ReplyTargets(i)
                    /\ \E index \in NormalizedIndexes(n) :
                            heap = <<NormalizedTable(index, reply)>>
          /\ fn = "reconstruct_threads"
    /\ at = "entry"
    /\ df_arg = 1
    /\ local = 0
    /\ ret = NoReturn

\* The caller's call normalize_datetime(df).
CallNormalizeDatetime ==
    /\ fn = "normalize_datetime"
    /\ at = "entry"
    /\ \E out \in NormalizeDatetimeCall(heap, df_arg) :
        /\ heap' = out.heap
        /\ ret' = [kind |-> out.kind, ref |-> out.ref]
        /\ at' = out.kind
    /\ UNCHANGED <<fn, df_arg, local>>

\* The caller's call reconstruct_threads(df).
CallReconstructThreads ==
    /\ fn = "reconstruct_threads"
    /\ at = "entry"
    /\ \E out \in ReconstructThreadsCall(heap, df_arg) :
        /\ heap' = out.heap
        /\ ret' = [kind |-> out.kind, ref |-> out.ref]
        /\ at' = out.kind
    /\ UNCHANGED <<fn, df_arg, local>>

\* A statement of engineer_features that assigns to df_eng: the object that
\* df_eng refers to becomes t, and control moves on.
Assign(t, next) ==
    /\ heap' = [heap EXCEPT ![local] = t]
    /\ at' = next
    /\ UNCHANGED <<fn, df_arg, local, ret>>

\* engineer_features raises.
Raise ==
    /\ at' = "raised"
    /\ ret' = Raised_
    /\ UNCHANGED <<fn, df_arg, local>>

\* Line 261: df_eng = df.copy()
EFCopy ==
    /\ fn = "engineer_features"
    /\ at = "entry"
    /\ LET copied == Copy(heap, df_arg)
       IN /\ heap' = copied.heap
          /\ local' = copied.ref
    /\ at' = "copied"
    /\ UNCHANGED <<fn, df_arg, ret>>

\* Line 264: df_eng = normalize_datetime(df_eng)
EFNormalizeDatetime ==
    /\ fn = "engineer_features"
    /\ at = "copied"
    /\ \E out \in NormalizeDatetimeCall(heap, local) :
        /\ heap' = out.heap
        /\ IF out.kind = "raised"
           THEN Raise
           ELSE /\ local' = out.ref
                /\ at' = "normalized"
                /\ UNCHANGED <<fn, df_arg, ret>>

\* Lines 267-274: id_str as strings, from the first id column there is.
EFIdStr ==
    /\ fn = "engineer_features"
    /\ at = "normalized"
    /\ LET t == heap[local]
           id_col == IdColumn(Columns(t))
       IN Assign(IF id_col = "none" THEN t
                 ELSE AssignColumn(t, "id_str", EnsureStringId(t, id_col)),
                 "id_str")

\* Lines 277-278: is_retweet and is_quote_tweet.
EFDetectionFlags ==
    /\ fn = "engineer_features"
    /\ at = "id_str"
    /\ LET t == heap[local]
           t1 == AssignColumn(t, "is_retweet",
                              [i \in DOMAIN t.rows |-> DetectRetweet(t.rows[i])])
       IN Assign(AssignColumn(t1, "is_quote_tweet",
                              [i \in DOMAIN t1.rows |-> DetectQuote(t1.rows[i])]),
                 "flags")

\* Lines 281-298: the text column is found (or ValueError is raised), its
\* nulls become "" and has_link is derived.
EFText ==
    /\ fn = "engineer_features"
    /\ at = "flags"
    /\ LET t == heap[local]
           text_col == TextColumn(Columns(t))
           t1 == AssignColumn(t, text_col,
                              [i \in DOMAIN t.rows |-> FillNaText(t.rows[i][text_col])])
       IN IF text_col = "none"
          THEN Raise /\ UNCHANGED heap
          ELSE Assign(AssignColumn(t1, "has_link",
                                   [i \in DOMAIN t1.rows |->
                                        Contains(t1.rows[i][text_col].str, LINK_PREFIX)]),
                      "text")

\* Lines 300-334: has_media, text_length_chars, num_hashtags, num_mentions
\* and has_question_mark.
EFContent ==
    /\ fn = "engineer_features"
    /\ at = "text"
    /\ LET t == heap[local]
           text_col == TextColumn(Columns(t))
           t1 == AssignColumn(t, "has_media",
                    [i \in DOMAIN t.rows |->
                        IF "extended_entities" \in Columns(t)
                        THEN HasMediaFromExtended(t.rows[i]["extended_entities"])
                        ELSE IF "tweet.extended_entities.media" \in Columns(t)
                        THEN ~IsNa(t.rows[i]["tweet.extended_entities.media"])
                        ELSE FALSE])
           t2 == AssignColumn(t1, "text_length_chars",
                    [i \in DOMAIN t1.rows |-> StrLen(t1.rows[i][text_col].str)])
           t3 == EntityCountColumn(t2, "tweet.entities.hashtags", "hashtags", "num_hashtags")
           t4 == EntityCountColumn(t3, "tweet.entities.user_mentions", "user_mentions", "num_mentions")
       IN Assign(AssignColumn(t4, "has_question_mark",
                              [i \in DOMAIN t4.rows |-> Contains(t4.rows[i][text_col].str, "?")]),
                 "content")

\* Lines 337-364: the reply-target column, the self-identifier, reply_type.
EFReplyType ==
    /\ fn = "engineer_features"
    /\ at = "content"
    /\ LET t == heap[local]
           reply_user_col == ReplyUserCol(t.rows)
           t1 == IF reply_user_col = "reply_user_col_tmp"
                 THEN AssignColumn(t, "reply_user_col_tmp", [i \in DOMAIN t.rows |-> NaN])
                 ELSE t
       IN \E resolved \in ResolvedUserIds(t1.rows) :
            Assign(AssignColumn(t1, "reply_type",
                                [i \in DOMAIN t1.rows |->
                                    ClassifyReply(t1.rows[i], reply_user_col, resolved)]),
                   "reply_type")

\* Lines 367-369: weekday, hour_of_day and month, from the index.
EFTimeFeatures ==
    /\ fn = "engineer_features"
    /\ at = "reply_type"
    /\ LET t == heap[local]
           t1 == AssignColumn(t, "weekday", [i \in DOMAIN t.rows |-> DayName(t.index[i])])
           t2 == AssignColumn(t1, "hour_of_day", [i \in DOMAIN t.rows |-> HourOfDay(t.index[i])])
       IN Assign(AssignColumn(t2, "month", [i \in DOMAIN t.rows |-> MonthOf(t.index[i])]),
                 "time")

\* Line 384: account_tier, from the index.
EFAccountTier ==
    /\ fn = "engineer_features"
    /\ at = "time"
    /\ LET t == heap[local]
       IN Assign(AssignColumn(t, "account_tier",
                              [i \in DOMAIN t.rows |-> AssignTier(t.index[i])]),
                 "tier")

\* Lines 387-415: the engagement counts, their total and its winsorization.
EFEngagement ==
    /\ fn = "engineer_features"
    /\ at = "tier"
    /\ Assign(EngagementColumns(heap[local]), "engagement")

\* Lines 418-420: df_eng = reconstruct_threads(df_eng); return df_eng
EFReconstructThreads ==
    /\ fn = "engineer_features"
    /\ at = "engagement"
    /\ \E out \in ReconstructThreadsCall(heap, local) :
        /\ heap' = out.heap
        /\ IF out.kind = "raised"
           THEN Raise
           ELSE /\ local' = out.ref
                /\ ret' = Returned_(out.ref)
                /\ at' = "returned"
                /\ UNCHANGED <<fn, df_arg>>

(***************************************************************************)
(* load_archive                                                            *)
(*                                                                         *)
(* A JSON value is a record whose field `json` tells its type:             *)
(*   [json |-> "object", members |-> f]   f maps the keys to their values  *)
(*   [json |-> "array", items |-> s]      s is the sequence of the items   *)
(*   [json |-> "string", s |-> "..."], [json |-> "number", n |-> k]        *)
(* A file is its lines: either every line is one complete JSON value       *)
(* (layout "lines": JSON Lines, or a whole document written on one line),  *)
(* or one JSON value is spread over several lines (layout "pretty").       *)
(***************************************************************************)
JObject(members) == [json |-> "object", members |-> members]

JArray(items) == [json |-> "array", items |-> items]

JString(s) == [json |-> "string", s |-> s]

JNumber(n) == [json |-> "number", n |-> n]

IsJObject(v) == v.json = "object"

IsJArray(v) == v.json = "array"

\* A frame as pd.DataFrame(...) builds it: column labels and rows.
Frame(columns, rows) == [columns |-> columns, rows |-> rows]

\* pd.DataFrame(list of dicts): the union of the keys as columns, NaN for a
\* key a record lacks; nested values stay in their cells.
FrameOfDicts(dicts) ==
    LET columns == UNION {DOMAIN dicts[i] : i \in DOMAIN dicts}
    IN Frame(columns,
             [i \in DOMAIN dicts |->
                [c \in columns |-> IF c \in DOMAIN dicts[i] THEN dicts[i][c] ELSE NaN]])

\* Line 39: pd.read_json(path, lines=True). The lines are joined with commas
\* between brackets and parsed as one array: the pieces of a value spread over
\* several lines do not parse (ValueError); a line that holds an array is one
\* row with a column per item (labelled by position), a scalar one cell.
ReadJsonLines(text) ==
    IF text.layout = "pretty"
    THEN [raised |-> TRUE, df |-> Frame({}, <<>>)]
    ELSE IF \A i \in DOMAIN text.values : IsJObject(text.values[i])
    THEN [raised |-> FALSE,
          df |-> FrameOfDicts([i \in DOMAIN text.values |-> text.values[i].members])]
    ELSE LET v == text.values[1]
             items == IF IsJArray(v) THEN v.items ELSE <<v>>
         IN [raised |-> FALSE,
             df |-> Frame({DigitStr(k - 1) : k \in DOMAIN items},
                          <<[c \in {DigitStr(k - 1) : k \in DOMAIN items} |->
                                items[CHOOSE k \in DOMAIN items : DigitStr(k - 1) = c]]>>)]

\* DataFrame.empty: no rows or no columns.
FrameEmpty(f) == f.rows = <<>> \/ f.columns = {}

\* 'tweet' in df.columns and isinstance(df.loc[0, 'tweet'], dict)
WrapsTweet(f) ==
    /\ "tweet" \in f.columns
    /\ ~IsNa(f.rows[1]["tweet"])
    /\ IsJObject(f.rows[1]["tweet"])

\* nested_to_record: the members of an object, those of a nested object
\* under the dotted path of their keys.
RECURSIVE NestedToRecord(_, _)
NestedToRecord(members, prefix) ==
    UNION {IF IsJObject(members[k])
           THEN NestedToRecord(members[k].members, prefix \o k \o ".")
           ELSE {<<prefix \o k, members[k]>>} : k \in DOMAIN members}

\* One flattened record as a function from column names to cells.
Flattened(members) ==
    LET pairs == NestedToRecord(members, "")
    IN [c \in {p[1] : p \in pairs} |-> (CHOOSE p \in pairs : p[1] = c)[2]]

\* The members of a cell that holds an object; none for any other cell.
MembersOf(cell) == IF ~IsNa(cell) /\ IsJObject(cell) THEN cell.members ELSE <<>>

\* pd.json_normalize(list of dicts, or a column of dicts): a table with a
\* RangeIndex, one row per record, nested objects flattened.
JsonNormalize(dicts) ==
    LET f == FrameOfDicts([i \in DOMAIN dicts |-> Flattened(dicts[i])])
    IN Table("RangeIndex", [i \in DOMAIN dicts |-> i - 1], f.rows)

\* The frame of a table, for the checks on its columns.
FrameOf(t) == Frame(Columns(t), t.rows)

\* Lines 62-67, 70-73 and 47-52: json_normalize of the records, then of their
\* 'tweet' column when the normalized table has one that holds an object.
NormalizeRecords(items) ==
    LET df_ == JsonNormalize([i \in DOMAIN items |-> MembersOf(items[i])])
    IN IF WrapsTweet(FrameOf(df_))
       THEN JsonNormalize([i \in DOMAIN df_.rows |-> MembersOf(df_.rows[i]["tweet"])])
       ELSE df_

\* What load_archive gives back.
NoLoad == [kind |-> "none", table |-> Table("RangeIndex", <<>>, <<>>), error |-> ""]

Loaded(t) == [kind |-> "returned", table |-> t, error |-> ""]

LoadRaised(e) == [kind |-> "raised", table |-> Table("RangeIndex", <<>>, <<>>), error |-> e]

UNSUPPORTED == "Unsupported JSON structure in archive"

JNull == [json |-> "null"]

LoadIdle ==
    /\ file = [layout |-> "none", values |-> <<>>]
    /\ load_at = "idle"
    /\ obj = JNull
    /\ loaded = NoLoad

\* ---- the files of the model ----
\* Tweet records: flat, with a nested object, with a list.
TweetRecords ==
    {JObject(("id_str" :> JString("1")) @@ ("full_text" :> JString("hi"))),
     JObject(("id_str" :> JString("2")) @@ ("user" :> JObject("id" :> JNumber(7)))),
     JObject(("id_str" :> JString("3")) @@ ("hashtags" :> JArray(<<JString("a")>>)))}

Wrap(rec) == JObject("tweet" :> rec)

\* Lists of 0..MaxRecords tweet records, all bare or all wrapped.
RecordLists ==
    UNION {[1..n -> TweetRecords] \cup {[i \in 1..n |-> Wrap(recs[i])] : recs \in [1..n -> TweetRecords]} :
           n \in 0..MaxRecords}

TextFile(layout, values) == [layout |-> layout, values |-> values]

\* The archive as JSON Lines, as a top-level array and as an object with a
\* `tweets` array, the last two on one line or pretty-printed.
ArchiveFiles ==
    UNION {{TextFile("lines", recs)} \cup
           {TextFile(layout, <<JArray(recs)>>) : layout \in {"lines", "pretty"}} \cup
           {TextFile(layout, <<JObject("tweets" :> JArray(recs))>>) : layout \in {"lines", "pretty"}} :
           recs \in RecordLists \ {<<>>}}

\* Documents that hold no records, are one record, or are something else.
OtherDocuments ==
    {JArray(<<>>), JObject("tweets" :> JArray(<<>>)),
     JObject("tweets" :> JNumber(5)), JObject("data" :> JArray(<<>>)),
     JObject("version" :> JNumber(2)), JNumber(5), JString("tweets")}
        \cup TweetRecords \cup {Wrap(rec) : rec \in TweetRecords}

OtherFiles ==
    {TextFile("lines", <<v>>) : v \in OtherDocuments}
        \cup {TextFile("pretty", <<v>>) : v \in {d \in OtherDocuments : d.json \in {"object", "array"}}}

LoadInit ==
    /\ file \in ArchiveFiles \cup OtherFiles
    /\ load_at = "entry"
    /\ obj = JNull
    /\ loaded = NoLoad

\* Lines 38-56: the attempt to read the file as JSON Lines.
TryJsonLines ==
    /\ load_at = "entry"
    /\ LET read == ReadJsonLines(file)
           df_ == read.df
           tweets == df_.rows[1]["tweets"]
       IN IF read.raised \/ FrameEmpty(df_)
          THEN /\ load_at' = "fallback"
               /\ UNCHANGED loaded
          ELSE IF WrapsTweet(df_)
          THEN /\ loaded' = Loaded(JsonNormalize(
                                [i \in DOMAIN df_.rows |-> MembersOf(df_.rows[i]["tweet"])]))
               /\ load_at' = "returned"
          ELSE IF "tweets" \in df_.columns /\ Len(df_.rows) = 1 /\ IsJArray(tweets)
          THEN /\ loaded' = Loaded(NormalizeRecords(tweets.items))
               /\ load_at' = "returned"
          ELSE /\ load_at' = "fallback"
               /\ UNCHANGED loaded
    /\ UNCHANGED <<file, obj>>

\* Lines 59-60: json.load reads one JSON value; text after it (a second line
\* of JSON Lines) is a JSONDecodeError, which nothing catches.
JsonLoad ==
    /\ load_at = "fallback"
    /\ IF Len(file.values) = 1
       THEN /\ obj' = file.values[1]
            /\ load_at' = "parsed"
            /\ UNCHANGED loaded
       ELSE /\ loaded' = LoadRaised("JSONDecodeError")
            /\ load_at' = "raised"
            /\ UNCHANGED obj
    /\ UNCHANGED file

\* Lines 62-67: a top-level list.
NormalizeList ==
    /\ load_at = "parsed"
    /\ IsJArray(obj)
    /\ loaded' = Loaded(NormalizeRecords(obj.items))
    /\ load_at' = "returned"
    /\ UNCHANGED <<file, obj>>

\* Lines 69-79: a top-level dict, with a `tweets` list or normalized as it is.
NormalizeDict ==
    /\ load_at = "parsed"
    /\ IsJObject(obj)
    /\ loaded' = IF "tweets" \in DOMAIN obj.members /\ IsJArray(obj.members["tweets"])
                 THEN Loaded(NormalizeRecords(obj.members["tweets"].items))
                 ELSE Loaded(NormalizeRecords(<<obj>>))
    /\ load_at' = "returned"
    /\ UNCHANGED <<file, obj>>

\* A last case that gives an empty table for anything else.
ReturnEmptyForUnsupported ==
    /\ load_at = "parsed"
    /\ ~IsJArray(obj)
    /\ ~IsJObject(obj)
    /\ loaded' = Loaded(Table("RangeIndex", <<>>, <<>>))
    /\ load_at' = "returned"
    /\ UNCHANGED <<file, obj>>

\* Line 81: anything else.
RaiseUnsupported ==
    /\ load_at = "parsed"
    /\ ~IsJArray(obj)
    /\ ~IsJObject(obj)
    /\ loaded' = LoadRaised(UNSUPPORTED)
    /\ load_at' = "raised"
    /\ UNCHANGED <<file, obj>>

(***************************************************************************)
(* classify_tweets_batch (src/02_classification_workflow.py)               *)
(*                                                                         *)
(* A table of tweets is a sequence of rows [label, text]; the labels are   *)
(* those of the rows that select_tweets_for_classification sampled, each   *)
(* once, in any order. A text is a number that stands for it. Task k is    *)
(* the coroutine classify_with_limit(text of row k).                       *)
(***************************************************************************)
\* The TweetClassification that classify_tweet returns on an exception.
Neutral ==
    [humor_type |-> "none", topic_category |-> "general",
     has_data_reference |-> FALSE, shows_vulnerability |-> FALSE,
     critique_type |-> "none"]

HumorTypes == <<"satire", "wordplay", "absurdist">>

TopicCategories == <<"politics", "technology", "economics", "culture">>

\* The classification the completion client answers for a text: texts that
\* differ get answers that differ, and none is the neutral one.
Completion(text) ==
    [humor_type |-> HumorTypes[(text % 3) + 1],
     topic_category |-> TopicCategories[((text \div 3) % 4) + 1],
     has_data_reference |-> TRUE,
     shows_vulnerability |-> (text \div 12) % 2 = 1,
     critique_type |-> "direct"]

\* Lines 180-211, classify_tweet: the validated answer of the client, or the
\* neutral classification when the call or the validation raised.
ClassifyTweet(text, answered) == IF answered THEN Completion(text) ELSE Neutral

batch_size == 10

SemaphoreValue == 5

\* The positions of the tasks of the batch that starts after position i.
Batch(i, n) == {k \in 1..n : i < k /\ k <= i + batch_size}

\* Semaphore.locked(): no permit left, or a task already waits.
Locked(sem) == sem.value = 0 \/ sem.waiters /= <<>>

\* An acquire() that never waits.
AcquireUnchecked(sem, k) ==
    [sem |-> [sem EXCEPT !.value = @ - 1], status |-> "in_flight"]

\* Semaphore.acquire() by task k, up to the point where it waits.
Acquire(sem, k) ==
    IF ~Locked(sem)
    THEN [sem |-> [sem EXCEPT !.value = @ - 1], status |-> "in_flight"]
    ELSE [sem |-> [sem EXCEPT !.waiters = Append(@, k)], status |-> "waiting"]

\* Semaphore.release(): the permit goes to the first waiter, if any.
Release(sem) ==
    IF sem.waiters /= <<>>
    THEN [sem |-> [sem EXCEPT !.waiters = Tail(@)], woken |-> {Head(sem.waiters)}]
    ELSE [sem |-> [sem EXCEPT !.value = @ + 1], woken |-> {}]

\* The position used as the label.
PositionAsLabel(table, i) == i

\* classified_df.index[i]: the label of the row at position i (from 0).
IndexLabel(table, i) == table[i + 1].label

PoolIdle ==
    /\ tweets_df = <<>>
    /\ pool_at = "idle"
    /\ semaphore = [value |-> 0, waiters |-> <<>>]
    /\ task = <<>>
    /\ client = <<>>
    /\ batch_results = <<>>
    /\ batch_start = 0
    /\ classifications = <<>>
    /\ classified_df = <<>>

\* A call on a table of 0..MaxTweets tweets whose labels are N-1, ..., 0 (the
\* rows of a table in the opposite order); the text of the tweet labelled l
\* is l + 1.
PoolInit ==
    /\ \E n \in 0..MaxTweets :
        tweets_df = [i \in 1..n |-> [label |-> n - i, text |-> n - i + 1]]
    /\ pool_at = "entry"
    /\ semaphore = [value |-> 0, waiters |-> <<>>]
    /\ task = <<>>
    /\ client = <<>>
    /\ batch_results = <<>>
    /\ batch_start = 0
    /\ classifications = <<>>
    /\ classified_df = <<>>

\* Lines 219-231: the semaphore, the coroutines, the empty result list.
CreateTasks ==
    /\ pool_at = "entry"
    /\ semaphore' = [value |-> SemaphoreValue, waiters |-> <<>>]
    /\ task' = [k \in DOMAIN tweets_df |-> "created"]
    /\ client' = [k \in DOMAIN tweets_df |-> "pending"]
    /\ batch_results' = [k \in DOMAIN tweets_df |-> NaN]
    /\ classifications' = <<>>
    /\ batch_start' = 0
    /\ pool_at' = "loop"
    /\ UNCHANGED <<tweets_df, classified_df>>

\* Lines 233-235: the next batch is handed to asyncio.gather, which
\* schedules its coroutines as tasks.
Gather ==
    /\ pool_at = "loop"
    /\ batch_start < Len(task)
    /\ task' = [k \in DOMAIN task |->
                    IF k \in Batch(batch_start, Len(task)) THEN "scheduled" ELSE task[k]]
    /\ pool_at' = "gather"
    /\ UNCHANGED <<tweets_df, semaphore, client, batch_results, batch_start,
                   classifications, classified_df>>

\* Lines 221-222: a scheduled task runs up to `async with semaphore`; the
\* event loop starts the tasks in the order gather received them.
TaskStart(k) ==
    /\ pool_at = "gather"
    /\ task[k] = "scheduled"
    /\ \A j \in 1..(k - 1) : task[j] /= "scheduled"
    /\ LET acquired == Acquire(semaphore, k)
       IN /\ semaphore' = acquired.sem
          /\ task' = [task EXCEPT ![k] = acquired.status]
    /\ UNCHANGED <<tweets_df, pool_at, client, batch_results, batch_start,
                   classifications, classified_df>>

\* Lines 223-224: the completion call of a task in flight returns or raises
\* (the client fails at most MaxFailures calls of a run), classify_tweet
\* gives its result, the semaphore is released.
Complete(k) ==
    /\ pool_at = "gather"
    /\ task[k] = "in_flight"
    /\ \E answered \in BOOLEAN :
        /\ answered \/ Cardinality({j \in DOMAIN client : client[j] = "failed"}) < MaxFailures
        /\ client' = [client EXCEPT ![k] = IF answered THEN "answered" ELSE "failed"]
        /\ batch_results' =
                [batch_results EXCEPT ![k] = ClassifyTweet(tweets_df[k].text, answered)]
    /\ LET released == Release(semaphore)
       IN /\ semaphore' = released.sem
          /\ task' = [j \in DOMAIN task |->
                        IF j = k THEN "done"
                        ELSE IF j \in released.woken THEN "in_flight"
                        ELSE task[j]]
    /\ UNCHANGED <<tweets_df, pool_at, batch_start, classifications, classified_df>>

\* Lines 235-242: gather returns the results of the batch in the order of its
\* tasks; they are appended and the loop moves to the next batch.
GatherDone ==
    /\ pool_at = "gather"
    /\ \A k \in Batch(batch_start, Len(task)) : task[k] = "done"
    /\ classifications' = classifications \o
            [j \in 1..Cardinality(Batch(batch_start, Len(task))) |->
                batch_results[batch_start + j]]
    /\ batch_start' = batch_start + batch_size
    /\ pool_at' = "loop"
    /\ UNCHANGED <<tweets_df, semaphore, task, client, batch_results, classified_df>>

\* Lines 246-251: for each i, classified_df.at[classified_df.index[i], ...] =
\* classifications[i]. A row ends with the classification of the last
\* iteration that wrote under its label, or as it was.
WriteClassifications(table, results) ==
    [j \in DOMAIN table |->
        LET writers == {i \in 0..(Len(results) - 1) : IndexLabel(table, i) = table[j].label}
            last == CHOOSE i \in writers : \A w \in writers : w <= i
        IN IF writers = {}
           THEN table[j]
           ELSE [table[j] EXCEPT !.classification = results[last + 1]]]

\* Lines 245-253: classified_df = tweets_df.copy(), the classifications
\* written to it, return classified_df.
ReturnClassified ==
    /\ pool_at = "loop"
    /\ batch_start >= Len(task)
    /\ classified_df' =
            WriteClassifications([i \in DOMAIN tweets_df |->
                                    [label |-> tweets_df[i].label, text |-> tweets_df[i].text,
                                     classification |-> NaN]],
                                 classifications)
    /\ pool_at' = "returned"
    /\ UNCHANGED <<tweets_df, semaphore, task, client, batch_results, batch_start,
                   classifications>>

(***************************************************************************)
(* fetch_account_info and combine_and_export                               *)
(* (src/scripts/mutuals_extract.py)                                        *)
(*                                                                         *)
(* The ids of data/mutual_ids.json are written 0 .. n - 1 and a slice of   *)
(* them [start |-> a, stop |-> b] holds the ids a .. b - 1. A file is      *)
(* Absent or holds a text: the serialization of a JSON value, the empty    *)
(* text, or a text that is not JSON.                                       *)
(***************************************************************************)
\* json.dump(value, f): the text written.
JsonDump(value) == [json_text |-> value]

\* The text of a file that was opened for writing and not written to.
EmptyText == [empty_text |-> TRUE]

\* Output that is not JSON.
NotJson == [not_json |-> TRUE]

\* The text parses: json.loads / json.load return a value for it.
ParsesAsJson(text) == "json_text" \in DOMAIN text

\* json.loads(text), for a text that parses.
JsonLoads(text) == text.json_text

\* The default of the parameter batch_size of fetch_account_info.
fetch_batch_size == 100

\* Line 36-37: the slices mutual_ids[i:i+batch_size] for i in range(0, n, batch_size).
Batches(n) ==
    [k \in 1..((n + fetch_batch_size - 1) \div fetch_batch_size) |->
        [start |-> (k - 1) * fetch_batch_size,
         stop |-> IF k * fetch_batch_size < n THEN k * fetch_batch_size ELSE n]]

\* What x-cli answers for a batch of ids, read as JSON.
ResponseFor(batch) == [data |-> batch]

\* subprocess.run(cmd, ...): the CLI fails, or exits with 0 and prints the
\* response, or exits with 0 and prints something that is not JSON.
CliResults(batch) ==
    {[returncode |-> 1, stdout |-> EmptyText],
     [returncode |-> 0, stdout |-> JsonDump(ResponseFor(batch))],
     [returncode |-> 0, stdout |-> NotJson]}

NoResult == [returncode |-> 0, stdout |-> EmptyText]

\* The numbers of the batch files that exist, ascending (sorted(glob(...))).
ExistingBatchFiles(files) == {k \in DOMAIN files : files[k] /= Absent}

\* Lines 59-73: combine_and_export up to the combined users: FileNotFoundError
\* without batch files, the error of json.load for a file that does not
\* parse, else the users of every file in the order of the files.
RECURSIVE CombineFrom(_, _, _)
CombineFrom(files, k, users) ==
    IF k > Len(files) THEN [kind |-> "exported", users |-> users]
    ELSE IF files[k] = Absent THEN CombineFrom(files, k + 1, users)
    ELSE IF ~ParsesAsJson(files[k]) THEN [kind |-> "JSONDecodeError", users |-> <<>>]
    ELSE CombineFrom(files, k + 1, Append(users, JsonLoads(files[k]).data))

Combine(files) ==
    IF ExistingBatchFiles(files) = {}
    THEN [kind |-> "FileNotFoundError", users |-> <<>>]
    ELSE CombineFrom(files, 1, <<>>)

NotCombined == [kind |-> "none", users |-> <<>>]

FetchIdle ==
    /\ mutual_ids_json = Absent
    /\ batch_files = <<>>
    /\ fetch_at = "idle"
    /\ batches = <<>>
    /\ batch_no = 0
    /\ result = NoResult
    /\ runs = 0
    /\ cli_calls = <<>>
    /\ last_fetch = <<>>
    /\ combined = NotCombined

\* How many ids data/mutual_ids.json may hold: none, or as many as fill
\* 1..MaxBatches batches to their first or to their last id.
MutualCounts ==
    {0} \cup {(k - 1) * fetch_batch_size + 1 : k \in 1..MaxBatches}
        \cup {k * fetch_batch_size : k \in 1..MaxBatches}

\* Before the first run: data/mutual_ids.json is there or not, and there is
\* no batch file.
FetchInit ==
    /\ mutual_ids_json \in {Absent} \cup {[ids |-> n] : n \in MutualCounts}
    /\ batch_files = [k \in 1..MaxBatches |-> Absent]
    /\ fetch_at = "idle"
    /\ batches = <<>>
    /\ batch_no = 0
    /\ result = NoResult
    /\ runs = 0
    /\ cli_calls = [k \in 1..MaxBatches |-> 0]
    /\ last_fetch = [k \in 1..MaxBatches |-> "none"]
    /\ combined = NotCombined

\* No call is running.
AtRest == fetch_at \in {"idle", "completed", "raised"}

\* Lines 27-37: a run of fetch_account_info starts: the ids are loaded
\* (FileNotFoundError without the file) and cut into batches.
StartFetch ==
    /\ AtRest
    /\ runs < MaxRuns
    /\ runs' = runs + 1
    /\ IF mutual_ids_json = Absent
       THEN /\ fetch_at' = "raised"
            /\ UNCHANGED <<batches, batch_no>>
       ELSE /\ batches' = Batches(mutual_ids_json.ids)
            /\ batch_no' = 1
            /\ fetch_at' = "for"
    /\ UNCHANGED <<mutual_ids_json, batch_files, result, cli_calls, last_fetch, combined>>

\* Lines 39-42: the batch file exists: continue.
SkipExisting ==
    /\ fetch_at = "for"
    /\ batch_no <= Len(batches)
    /\ batch_files[batch_no] /= Absent
    /\ batch_no' = batch_no + 1
    /\ UNCHANGED <<mutual_ids_json, batch_files, fetch_at, batches, result, runs,
                   cli_calls, last_fetch, combined>>

\* Lines 44-46: the batch file does not exist: the CLI is run for the batch.
\* cli_calls counts the runs of the CLI per batch (it is not a variable of
\* the code).
RunCli ==
    /\ fetch_at = "for"
    /\ batch_no <= Len(batches)
    /\ batch_files[batch_no] = Absent
    /\ result' \in CliResults(batches[batch_no])
    /\ cli_calls' = [cli_calls EXCEPT ![batch_no] = @ + 1]
    /\ fetch_at' = "ran"
    /\ UNCHANGED <<mutual_ids_json, batch_files, batches, batch_no, runs, last_fetch,
                   combined>>

\* Lines 48-50: the CLI failed: the error is printed and the loop continues.
\* last_fetch records how the last fetch of each batch ended (it is not a
\* variable of the code).
CliFailed ==
    /\ fetch_at = "ran"
    /\ result.returncode /= 0
    /\ last_fetch' = [last_fetch EXCEPT ![batch_no] = "failed"]
    /\ batch_no' = batch_no + 1
    /\ fetch_at' = "for"
    /\ UNCHANGED <<mutual_ids_json, batch_files, batches, result, runs, cli_calls, combined>>

\* Line 52: with open(batch_file, 'w') as f: the file is created empty.
OpenBatchFile ==
    /\ fetch_at = "ran"
    /\ result.returncode = 0
    /\ batch_files' = [batch_files EXCEPT ![batch_no] = EmptyText]
    /\ fetch_at' = "opened"
    /\ UNCHANGED <<mutual_ids_json, batches, batch_no, result, runs, cli_calls, last_fetch,
                   combined>>

\* Lines 53-54: the output is parsed and written to the open file; output
\* that does not parse raises JSONDecodeError out of fetch_account_info, and
\* the with statement closes the file as it is.
WriteResponse ==
    /\ fetch_at = "opened"
    /\ IF ParsesAsJson(result.stdout)
       THEN /\ batch_files' = [batch_files EXCEPT
                                    ![batch_no] = JsonDump(JsonLoads(result.stdout))]
            /\ last_fetch' = [last_fetch EXCEPT ![batch_no] = "written"]
            /\ batch_no' = batch_no + 1
            /\ fetch_at' = "for"
       ELSE /\ last_fetch' = [last_fetch EXCEPT ![batch_no] = "unparsed"]
            /\ fetch_at' = "raised"
            /\ UNCHANGED <<batch_files, batch_no>>
    /\ UNCHANGED <<mutual_ids_json, batches, result, runs, cli_calls, combined>>

\* Line 56: every batch has been visited.
FetchCompleted ==
    /\ fetch_at = "for"
    /\ batch_no > Len(batches)
    /\ fetch_at' = "completed"
    /\ UNCHANGED <<mutual_ids_json, batch_files, batches, batch_no, result, runs, cli_calls,
                   last_fetch, combined>>

\* Lines 58-73: a call of combine_and_export while no run is going on; its
\* outcome is kept in `combined`.
CombineAndExport ==
    /\ AtRest
    /\ combined' = Combine(batch_files)
    /\ UNCHANGED <<mutual_ids_json, batch_files, fetch_at, batches, batch_no, result, runs,
                   cli_calls, last_fetch>>

(***************************************************************************)
(* Specifications                                                          *)
(***************************************************************************)
\* engineer_features is not running.
FeaturesIdle ==
    /\ df_eng = <<>>
    /\ stage = "idle"
    /\ UserDefault

ThreadsNext ==
    \/ BuildParentMap /\ UNCHANGED notThreadVars
    \/ FindCached /\ UNCHANGED notThreadVars
    \/ FindStart /\ UNCHANGED notThreadVars
    \/ WhileIter /\ UNCHANGED notThreadVars
    \/ WhileExit /\ UNCHANGED notThreadVars
    \/ ApplyDone /\ UNCHANGED notThreadVars

TierNext ==
    \/ NormalizeDatetime /\ UNCHANGED notFeatureVars
    \/ AccountTier /\ UNCHANGED notFeatureVars

InitThreads ==
    ThreadsInit /\ FeaturesIdle /\ CallsIdle /\ LoadIdle /\ PoolIdle
        /\ FetchIdle

SpecThreads == InitThreads /\ [][ThreadsNext]_vars

DetectNext ==
    \/ IsRetweetColumn /\ UNCHANGED notFeatureVars
    \/ IsQuoteTweetColumn /\ UNCHANGED notFeatureVars

InitDetect ==
    DetectInit /\ ThreadsIdle /\ CallsIdle /\ LoadIdle /\ PoolIdle
        /\ FetchIdle

SpecDetect == InitDetect /\ [][DetectNext]_vars

ReplyNext ==
    \/ ResolveUserId /\ UNCHANGED notFeatureVars
    \/ ReplyTypeColumn /\ UNCHANGED notFeatureVars

InitReply ==
    ReplyInit /\ ThreadsIdle /\ CallsIdle /\ LoadIdle /\ PoolIdle
        /\ FetchIdle

SpecReply == InitReply /\ [][ReplyNext]_vars

InitTier ==
    TierInit /\ ThreadsIdle /\ CallsIdle /\ LoadIdle /\ PoolIdle
        /\ FetchIdle

SpecTier == InitTier /\ [][TierNext]_vars

CallsNext ==
    \/ CallCreateCoreSample /\ UNCHANGED notCallVars
    \/ CallCreateCoreSampleAgain /\ UNCHANGED notCallVars
    \/ CallNormalizeDatetime /\ UNCHANGED notCallVars
    \/ CallReconstructThreads /\ UNCHANGED notCallVars
    \/ EFCopy /\ UNCHANGED notCallVars
    \/ EFNormalizeDatetime /\ UNCHANGED notCallVars
    \/ EFIdStr /\ UNCHANGED notCallVars
    \/ EFDetectionFlags /\ UNCHANGED notCallVars
    \/ EFText /\ UNCHANGED notCallVars
    \/ EFContent /\ UNCHANGED notCallVars
    \/ EFReplyType /\ UNCHANGED notCallVars
    \/ EFTimeFeatures /\ UNCHANGED notCallVars
    \/ EFAccountTier /\ UNCHANGED notCallVars
    \/ EFEngagement /\ UNCHANGED notCallVars
    \/ EFReconstructThreads /\ UNCHANGED notCallVars

InitCalls ==
    (CoreSampleInit \/ RawCallInit) /\ ThreadsIdle /\ FeaturesIdle /\ LoadIdle /\ PoolIdle
        /\ FetchIdle

SpecCalls == InitCalls /\ [][CallsNext]_vars

LoadNext ==
    \/ TryJsonLines /\ UNCHANGED notLoadVars
    \/ JsonLoad /\ UNCHANGED notLoadVars
    \/ NormalizeList /\ UNCHANGED notLoadVars
    \/ NormalizeDict /\ UNCHANGED notLoadVars
    \/ RaiseUnsupported /\ UNCHANGED notLoadVars

InitLoad ==
    LoadInit /\ ThreadsIdle /\ FeaturesIdle /\ CallsIdle /\ PoolIdle
        /\ FetchIdle

SpecLoad == InitLoad /\ [][LoadNext]_vars

\* The steps the event loop takes by itself.
EventLoopNext ==
    \/ CreateTasks /\ UNCHANGED notPoolVars
    \/ Gather /\ UNCHANGED notPoolVars
    \/ (\E k \in DOMAIN task : TaskStart(k)) /\ UNCHANGED notPoolVars
    \/ GatherDone /\ UNCHANGED notPoolVars
    \/ ReturnClassified /\ UNCHANGED notPoolVars

\* The steps that wait for the completion client.
CompletionNext == (\E k \in DOMAIN task : Complete(k)) /\ UNCHANGED notPoolVars

PoolNext == EventLoopNext \/ CompletionNext

InitPool ==
    PoolInit /\ ThreadsIdle /\ FeaturesIdle /\ CallsIdle /\ LoadIdle
        /\ FetchIdle

SpecPool == InitPool /\ [][PoolNext]_vars

FetchNext ==
    \/ StartFetch /\ UNCHANGED notFetchVars
    \/ SkipExisting /\ UNCHANGED notFetchVars
    \/ RunCli /\ UNCHANGED notFetchVars
    \/ CliFailed /\ UNCHANGED notFetchVars
    \/ OpenBatchFile /\ UNCHANGED notFetchVars
    \/ WriteResponse /\ UNCHANGED notFetchVars
    \/ FetchCompleted /\ UNCHANGED notFetchVars
    \/ CombineAndExport /\ UNCHANGED notFetchVars

InitFetch ==
    FetchInit /\ ThreadsIdle /\ FeaturesIdle /\ CallsIdle /\ LoadIdle /\ PoolIdle

SpecFetch == InitFetch /\ [][FetchNext]_vars

\* The event loop runs every task that is ready, and every completion call
\* eventually returns or fails.
SpecPoolFair ==
    /\ InitPool
    /\ [][PoolNext]_vars
    /\ WF_vars(EventLoopNext)
    /\ WF_vars(CompletionNext)

(***************************************************************************)
(* Claims about reconstruct_threads                                        *)
(***************************************************************************)
\* The ids of the table's records.
RecordIds == {df[i].id_str : i \in DOMAIN df}

\* C1 (as claimed): thread-root determinism. When reconstruct_threads has
\* assigned every row, each record id has the thread_id that a run over any
\* other row order of the same records assigns it.
C1_OrderIndependent ==
    pc = "done" =>
        \A p \in Perms(Len(df)) :
            ThreadIdById(Reorder(df, p), ThreadIdColumn(Reorder(df, p)))
                = ThreadIdById(df, thread_id)

\* Two rows that reply to each other.
MutualPairs ==
    {<<i, j>> \in (DOMAIN df) \X (DOMAIN df) :
        /\ i /= j
        /\ df[i].reply = df[j].id_str
        /\ df[j].reply = df[i].id_str}

\* C2: cycle termination. A call of find_thread_root never runs more loop
\* iterations than the table has distinct ids; reconstruction can always take
\* a step until it is done; and two records replying to each other both end
\* with a thread_id that is one of their two ids.
C2_CycleTermination ==
    /\ walk.steps <= Cardinality(RecordIds)
    /\ (pc /= "done" => ENABLED ThreadsNext)
    /\ (pc = "done" =>
            \A m \in MutualPairs :
                thread_id[m[1]] \in {df[m[1]].id_str, df[m[2]].id_str})

\* C2 witness: a finished reconstruction of a table holding a mutual reply
\* cycle, whose last walk was cut off at a visited id after as many
\* iterations as the table has ids.
C2_Witness ==
    /\ pc = "done"
    /\ MutualPairs /= {}
    /\ walk.broke
    /\ walk.steps = Cardinality(RecordIds)

(***************************************************************************)
(* Claims about the account tier                                           *)
(***************************************************************************)
TierLabels == {"tier_pre_upgrade", "tier_upgraded", "tier_post_upgrade"}

\* A created_at cell written in UTC.
UtcCell(y, mo, d, h, mi, s) ==
    [y |-> y, mo |-> mo, d |-> d, h |-> h, mi |-> mi, s |-> s, off |-> 0]

C4_InclusiveStarts ==
    stage = "tiered" =>
        \A i \in DOMAIN df_eng :
            /\ (df_eng[i].post_datetime = 1694476800
                    => df_eng[i].account_tier = "tier_upgraded")
            /\ (df_eng[i].post_datetime = 1726099200
                    => df_eng[i].account_tier = "tier_post_upgrade")

(***************************************************************************)
(* Claims about the detection flags                                        *)
(***************************************************************************)
\* The first non-null explicit flag among the columns `cols`, as a set: empty
\* when the row has no such flag.
ExplicitFlag(r, cols) ==
    LET set == {k \in DOMAIN cols : cols[k] \in DOMAIN r /\ "bool" \in DOMAIN r[cols[k]]}
    IN {r[cols[k]].bool : k \in {j \in set : \A i \in set : j <= i}}

\* The row has a nested retweeted-status object.
HasNestedStatus(r) ==
    \E c \in {"retweeted_status", "tweet.retweeted_status"} :
        c \in DOMAIN r /\ "dict" \in DOMAIN r[c]

\* The text of the row begins with "RT @".
TextBeginsRT(r) ==
    "str" \in DOMAIN TextOf(r)
        /\ Len(TextOf(r).str) >= 4
        /\ TextOf(r).str[1] = "R" /\ TextOf(r).str[2] = "T"
        /\ TextOf(r).str[3] = " " /\ TextOf(r).str[4] = "@"

RetweetFlagCols == <<"retweeted", "tweet.retweeted">>

\* C5 (as claimed): the text heuristic. A row whose explicit retweet flag is
\* false, that has no nested retweeted-status object and whose text begins
\* with "RT @" has is_retweet = TRUE; and a row whose explicit flag is true
\* and whose text does not begin with "RT @" has is_retweet = TRUE.
C5_TextHeuristic ==
    stage = "is_retweet" =>
        \A i \in DOMAIN df_eng :
            LET r == df_eng[i]
            IN /\ (/\ ExplicitFlag(r, RetweetFlagCols) = {FALSE}
                   /\ ~HasNestedStatus(r)
                   /\ TextBeginsRT(r)) => r["is_retweet"] = TRUE
               /\ (/\ ExplicitFlag(r, RetweetFlagCols) = {TRUE}
                   /\ ~TextBeginsRT(r)) => r["is_retweet"] = TRUE

QuoteFlagCols == <<"is_quote_status", "tweet.is_quote_status">>

\* The row has a quoted-status id.
HasQuotedId(r) ==
    \E c \in {"quoted_status_id_str", "tweet.quoted_status_id_str"} :
        c \in DOMAIN r /\ "str" \in DOMAIN r[c]

\* The URL entities reachable through the flat `entities` column.
FlatUrls(r) ==
    IF "entities" \in DOMAIN r /\ "dict" \in DOMAIN r["entities"]
            /\ r["entities"].dict.urls_key = "list"
    THEN Range(r["entities"].dict.urls)
    ELSE {}

\* The URL entities reachable through the dotted `tweet.entities.urls` column.
DottedUrls(r) ==
    IF "tweet.entities.urls" \in DOMAIN r /\ "list" \in DOMAIN r["tweet.entities.urls"]
    THEN Range(r["tweet.entities.urls"].list)
    ELSE {}

\* The expanded URL holds a status link.
HasStatusLink(u) ==
    /\ "str" \in DOMAIN u.expanded_url
    /\ {"twitter.com", "/status/"} \subseteq Range(u.expanded_url.str)

\* C7 (as claimed): quote detection by URL entity. For a row with no non-null
\* explicit quote flag and no quoted-status id, is_quote_tweet is TRUE exactly
\* when one of its URL entities holds a status link, both when the entities
\* come through the flat `entities` column and when they come only through
\* the dotted `tweet.entities.urls` column.
C7_QuoteByUrlEntity ==
    stage = "is_quote_tweet" =>
        \A i \in DOMAIN df_eng :
            LET r == df_eng[i]
            IN (ExplicitFlag(r, QuoteFlagCols) = {} /\ ~HasQuotedId(r)) =>
                /\ FlatUrls(r) /= {} =>
                    (r["is_quote_tweet"] = TRUE <=> \E u \in FlatUrls(r) : HasStatusLink(u))
                /\ (FlatUrls(r) = {} /\ "entities" \notin DOMAIN r) =>
                    (r["is_quote_tweet"] = TRUE <=> \E u \in DottedUrls(r) : HasStatusLink(u))

(***************************************************************************)
(* Claims about the self-identifier and the reply type                     *)
(***************************************************************************)
\* The reply-target user id of a row: the cell of the reply-target column.
ReplyTarget(r) == Get(r, ReplyUserCol(df_eng))

\* C8 (as claimed): reply_type is total and exact. Each row has exactly one of
\* the three values: none iff its reply-target user id is null, reply_own iff
\* it is present and its string form equals the string form of the resolved
\* self-identifier, reply_other in every other case.
C8_ReplyTypeExact ==
    stage = "reply_type" =>
        \A i \in DOMAIN df_eng :
            LET r == df_eng[i]
                own == ~IsNa(ReplyTarget(r)) /\ Str(ReplyTarget(r)) = Str(resolved_user_id)
            IN /\ r["reply_type"] \in {"none", "reply_own", "reply_other"}
               /\ r["reply_type"] = "none" <=> IsNa(ReplyTarget(r))
               /\ r["reply_type"] = "reply_own" <=> own
               /\ r["reply_type"] = "reply_other" <=> (~IsNa(ReplyTarget(r)) /\ ~own)

\* C8 (amended): as C8, with reply_own iff the reply-target user id is
\* present, its string form equals the string form of the resolved
\* self-identifier, and the resolved self-identifier is not empty.
C8_ReplyTypeExactNonEmpty ==
    stage = "reply_type" =>
        \A i \in DOMAIN df_eng :
            LET r == df_eng[i]
                own == /\ ~IsNa(ReplyTarget(r))
                       /\ Str(ReplyTarget(r)) = Str(resolved_user_id)
                       /\ Str(resolved_user_id) /= ""
            IN /\ r["reply_type"] \in {"none", "reply_own", "reply_other"}
               /\ r["reply_type"] = "none" <=> IsNa(ReplyTarget(r))
               /\ r["reply_type"] = "reply_own" <=> own
               /\ r["reply_type"] = "reply_other" <=> (~IsNa(ReplyTarget(r)) /\ ~own)

\* C8 witness: a classified table with an empty resolved self-identifier, a
\* row whose reply target is the empty string, classified reply_other, and a
\* row without a reply target, classified none.
C8_Witness ==
    /\ stage = "reply_type"
    /\ resolved_user_id = IdStr("")
    /\ \E i, j \in DOMAIN df_eng :
        /\ ReplyTarget(df_eng[i]) = IdStr("")
        /\ df_eng[i]["reply_type"] = "reply_other"
        /\ IsNa(ReplyTarget(df_eng[j]))
        /\ df_eng[j]["reply_type"] = "none"

\* The values that occur most often among the non-null cells of column col
\* in the rows idxs (empty when there is no such cell).
MostFrequentId(tbl, idxs, col) ==
    LET ids == {i \in idxs : col \in DOMAIN tbl[i] /\ ~IsNa(tbl[i][col])}
        count(v) == Cardinality({i \in ids : Str(tbl[i][col]) = v})
        values == {Str(tbl[i][col]) : i \in ids}
    IN {v \in values : \A w \in values : count(w) <= count(v)}

\* The self-identifiers the claimed order of inference allows for a table.
ClaimedSelfIds(tbl) ==
    LET matching == {i \in DOMAIN tbl :
                        /\ "user.screen_name" \in DOMAIN tbl[i]
                        /\ ~IsNa(tbl[i]["user.screen_name"])
                        /\ Lower(Str(tbl[i]["user.screen_name"])) = Lower(MY_SCREEN_NAME)}
        byName == MostFrequentId(tbl, matching, "user.id_str")
        byAuthor == MostFrequentId(tbl, DOMAIN tbl, "user.id_str")
        byReply == MostFrequentId(tbl, DOMAIN tbl, ReplyUserCol(tbl))
    IN IF byName /= {} THEN byName
       ELSE IF byAuthor /= {} THEN byAuthor
       ELSE IF byReply /= {} THEN byReply
       ELSE {""}

\* No self-identifier is given: neither the argument nor the setting.
NoExplicitSelfId == ConfiguredUserId(my_user_id, MY_USER_ID) = PyNone

\* C9 (as claimed): self-identifier resolution. Without an explicit
\* self-identifier, the resolved one is (1) the most frequent author id among
\* the rows whose screen name matches the username hint, (2) else the most
\* frequent author id of the table, (3) else the most frequent reply-target
\* user id, and no other value.
C9_InferenceOrder ==
    (stage \in {"resolved", "reply_type"} /\ NoExplicitSelfId)
        => Str(resolved_user_id) \in ClaimedSelfIds(df_eng)

\* Inference of the self-identifier is attempted and fails.
InferenceFails ==
    /\ NoExplicitSelfId
    /\ Raised \in InferMyUserId(df_eng, MY_SCREEN_NAME)

\* C10: degraded resolution. When inference is attempted and yields no value,
\* engineer_features goes on: the self-identifier becomes the empty string
\* and no row gets reply_type reply_own, a row whose reply-target user id is
\* the empty string included.
C10_DegradedResolution ==
    InferenceFails =>
        /\ stage \in {"content", "resolved"} => ENABLED ReplyNext
        /\ stage \in {"resolved", "reply_type"} => resolved_user_id = IdStr("")
        /\ stage = "reply_type" =>
            \A i \in DOMAIN df_eng : df_eng[i]["reply_type"] /= "reply_own"

\* C10 witness: inference failed and a row whose reply-target user id is the
\* empty string was classified reply_other.
C10_Witness ==
    /\ InferenceFails
    /\ stage = "reply_type"
    /\ \E i \in DOMAIN df_eng :
        /\ ReplyTarget(df_eng[i]) = IdStr("")
        /\ df_eng[i]["reply_type"] = "reply_other"

(***************************************************************************)
(* Claims about create_core_sample                                         *)
(***************************************************************************)
\* The rows the core sample is said to keep.
InCoreSample(r) ==
    /\ r["is_retweet"] = FALSE
    /\ r["is_quote_tweet"] = FALSE
    /\ (r["reply_type"] = "none" \/ r["reply_type"] = "reply_other")

\* The row replies to the user whose id is x.
RepliesTo(r, x) == r["in_reply_to_user_id_str"] = IdStr(x)

\* The ids of the rows of a table.
IdsOf(t) == {t.rows[k]["id_str"] : k \in DOMAIN t.rows}

\* C11: the core sample filter. The table create_core_sample returns holds
\* exactly the rows of its input that are neither retweets nor quote tweets
\* and whose reply_type is none or reply_other, under their labels and in
\* input order; so a reply to the self-identifier (reply_own) is absent from
\* it and a reply to another user that is neither a retweet nor a quote tweet
\* is present.
C11_CoreSampleFilter ==
    (fn = "create_core_sample" /\ at = "returned") =>
        LET in == heap[df_arg]
            out == heap[ret.ref]
            kept == {i \in DOMAIN in.rows : InCoreSample(in.rows[i])}
            src(k) == CHOOSE i \in kept : Cardinality({j \in kept : j < i}) = k - 1
        IN /\ Len(out.rows) = Cardinality(kept)
           /\ \A k \in DOMAIN out.rows :
                /\ out.rows[k] = in.rows[src(k)]
                /\ out.index[k] = in.index[src(k)]
           /\ \A i \in DOMAIN in.rows :
                /\ RepliesTo(in.rows[i], MY_USER_ID_SET)
                    => /\ in.rows[i]["reply_type"] = "reply_own"
                       /\ in.rows[i]["id_str"] \notin IdsOf(out)
                /\ (/\ RepliesTo(in.rows[i], "7")
                    /\ ~in.rows[i]["is_retweet"]
                    /\ ~in.rows[i]["is_quote_tweet"])
                    => in.rows[i]["id_str"] \in IdsOf(out)

\* C11 witness: a call returned for a table of two rows with the same text,
\* neither a retweet nor a quote tweet, the first a reply to the
\* self-identifier and the second a reply to another user; the result holds
\* the second row only.
C11_Witness ==
    /\ fn = "create_core_sample"
    /\ at = "returned"
    /\ Len(heap[df_arg].rows) = 2
    /\ LET a == heap[df_arg].rows[1]
           b == heap[df_arg].rows[2]
       IN /\ RepliesTo(a, MY_USER_ID_SET) /\ RepliesTo(b, "7")
          /\ a["full_text"] = b["full_text"]
          /\ ~a["is_retweet"] /\ ~a["is_quote_tweet"]
          /\ ~b["is_retweet"] /\ ~b["is_quote_tweet"]
          /\ heap[ret.ref].rows = <<b>>

\* C12: idempotence of filtering. create_core_sample applied to the table it
\* returned gives a table with the same rows under the same labels in the
\* same order.
C12_CoreSampleIdempotent ==
    (fn = "create_core_sample" /\ at = "returned_again") =>
        /\ heap[ret.ref].rows = heap[df_arg].rows
        /\ heap[ret.ref].index = heap[df_arg].index

\* C12 witness: the second call returned, the first having dropped a row of
\* the original table and kept another.
C12_Witness ==
    /\ fn = "create_core_sample"
    /\ at = "returned_again"
    /\ Len(heap[1].rows) > Len(heap[df_arg].rows)
    /\ Len(heap[df_arg].rows) > 0
    /\ ret.ref /= df_arg

(***************************************************************************)
(* Claims about the caller's table                                         *)
(***************************************************************************)
\* C13: no input mutation. No step of a call of engineer_features,
\* reconstruct_threads, normalize_datetime or create_core_sample, whether the
\* call returns or raises, removes or changes the table object the caller
\* passed: it keeps its rows, columns, cells (null text cells included), row
\* order and index; the only object a step changes is the call's own working
\* copy, which is not the caller's table.
C13_NoInputMutation ==
    [][\A r \in DOMAIN heap :
            /\ r \in DOMAIN heap'
            /\ heap'[r] /= heap[r] => (r = local /\ r /= df_arg)]_vars

\* C13 witness: engineer_features returned for a table of two rows, the first
\* with a null text cell and no date, the second with a date; the returned
\* table has the dated row first, the null text replaced by "" and derived
\* columns, while the caller's table still has the null cell, its row order
\* and no derived column.
C13_Witness ==
    /\ fn = "engineer_features"
    /\ at = "returned"
    /\ ret.ref /= df_arg
    /\ LET in == heap[df_arg]
           out == heap[ret.ref]
       IN /\ Len(in.rows) = 2
          /\ "full_text" \in DOMAIN in.rows[1]
          /\ in.rows[1]["full_text"] = NaN
          /\ in.rows[1]["created_at"] = NoDate
          /\ in.rows[2]["created_at"] /= NoDate
          /\ in.index = <<0, 1>>
          /\ "is_retweet" \notin DOMAIN in.rows[1]
          /\ out.rows[2]["id_str"] = in.rows[1]["id_str"]
          /\ out.rows[2]["full_text"] = StrCell(<<>>)
          /\ "thread_id" \in DOMAIN out.rows[2]

(***************************************************************************)
(* Claims about the failures of engineer_features                          *)
(***************************************************************************)
\* The table has no column for one of the required concepts: timestamp, id,
\* text.
RequiredMissing(t) ==
    \/ TimestampColumn(Columns(t)) = "none"
    \/ IdColumn(Columns(t)) = "none"
    \/ TextColumn(Columns(t)) = "none"

\* The defaults claimed for the derived columns of the optional concepts the
\* input lacks, leaving num_hashtags and num_mentions aside.
DefaultsButEntities(in, out) ==
    \A i \in DOMAIN out.rows :
        LET r == out.rows[i]
        IN /\ "favorite_count" \notin Columns(in)
                => /\ r["likes"] = 0 /\ r["retweets"] = 0
                   /\ r["replies"] = 0 /\ r["bookmarks"] = 0
           /\ "extended_entities" \notin Columns(in) => r["has_media"] = FALSE
           /\ "in_reply_to_user_id_str" \notin Columns(in) => r["reply_type"] = "none"

\* The defaults claimed for num_hashtags and num_mentions when the input has
\* no entities column.
DefaultsOfEntities(in, out) ==
    \A i \in DOMAIN out.rows :
        "entities" \notin Columns(in)
            => /\ out.rows[i]["num_hashtags"] = IntCell(0)
               /\ out.rows[i]["num_mentions"] = IntCell(0)

\* C17 (as claimed): failure semantics of engineer_features. A call on a
\* table that lacks a required concept never returns a table (it has no
\* result unless it has raised); a call on a table that has the required
\* concepts never raises, whatever optional columns are missing, and the
\* table it returns has the defaults (0, FALSE, none) in the derived columns
\* of the missing optional concepts: the counts, has_media, reply_type,
\* num_hashtags, num_mentions.
C17_FailureSemantics ==
    fn = "engineer_features" =>
        /\ RequiredMissing(heap[df_arg]) => (at /= "returned" /\ ret.kind /= "returned")
        /\ ret.kind = "raised" <=> at = "raised"
        /\ ~RequiredMissing(heap[df_arg]) => at /= "raised"
        /\ at = "returned" =>
            /\ ret.kind = "returned"
            /\ DefaultsButEntities(heap[df_arg], heap[ret.ref])
            /\ DefaultsOfEntities(heap[df_arg], heap[ret.ref])

\* The k-th smallest (k counted from 0) of a sequence of numbers.
OrderStatistic(values, k) ==
    CHOOSE v \in Range(values) :
        /\ Cardinality({i \in DOMAIN values : values[i] < v}) <= k
        /\ Cardinality({i \in DOMAIN values : values[i] <= v}) > k

\* The 95th percentile of a non-empty sequence of numbers, in hundredths:
\* the point 95% of the way along the n - 1 gaps between the sorted values.
Percentile95(values) ==
    LET n == Len(values)
        k == ((n - 1) * 95) \div 100
        part == ((n - 1) * 95) % 100
        below == OrderStatistic(values, k)
        above == IF part = 0 THEN below ELSE OrderStatistic(values, k + 1)
    IN 100 * below + part * (above - below)

\* The total_engagement column of a table.
TotalsOf(t) == [i \in DOMAIN t.rows |-> t.rows[i]["total_engagement"]]

Min(a, b) == IF a <= b THEN a ELSE b

\* C14: in the output of engineer_features, with cap the 95th percentile of
\* total_engagement over the rows of the call, every row has
\* winsorized_engagement = min(total_engagement, cap): no winsorized value
\* exceeds the cap, a row at or below the cap keeps its total_engagement, and
\* the output has as many rows as the input.  (Values are in hundredths.)
C14_Winsorization ==
    (fn = "engineer_features" /\ at = "returned") =>
        LET out == heap[ret.ref]
            cap == Percentile95(TotalsOf(out))
        IN /\ Len(out.rows) = Len(heap[df_arg].rows)
           /\ \A i \in DOMAIN out.rows :
                LET total == 100 * out.rows[i]["total_engagement"]
                    w == out.rows[i]["winsorized_engagement"]
                IN /\ w = Min(total, cap)
                   /\ w <= cap
                   /\ total <= cap => w = total

\* C14 witness: engineer_features has returned a table in which one row was
\* cut down to the cap and two rows tie below it and are both kept.
C14_Witness ==
    /\ fn = "engineer_features"
    /\ at = "returned"
    /\ \E i \in DOMAIN heap[ret.ref].rows :
        heap[ret.ref].rows[i]["winsorized_engagement"]
            < 100 * heap[ret.ref].rows[i]["total_engagement"]

\* C14 witness of the tie: two rows with the same total, equal to the cap,
\* are both in the output with that value.
C14_TieWitness ==
    /\ fn = "engineer_features"
    /\ at = "returned"
    /\ Len(heap[ret.ref].rows) = 2
    /\ heap[ret.ref].rows[1]["total_engagement"] = 10
    /\ heap[ret.ref].rows[2]["winsorized_engagement"] = 1000

(***************************************************************************)
(* Claims about load_archive                                               *)
(***************************************************************************)
\* load_archive has ended: it returned or raised.
LoadEnded == load_at \in {"returned", "raised"}

HasTweetsArray(doc) ==
    /\ IsJObject(doc)
    /\ "tweets" \in DOMAIN doc.members
    /\ IsJArray(doc.members["tweets"])

\* The records a file of the archive stores, in any of its shapes.
StoredItems(text) ==
    LET doc == text.values[1]
    IN IF Len(text.values) = 1 /\ IsJArray(doc) THEN doc.items
       ELSE IF Len(text.values) = 1 /\ HasTweetsArray(doc) THEN doc.members["tweets"].items
       ELSE text.values

\* A record without its `tweet` wrapper.
BareRecord(item) ==
    IF DOMAIN item.members = {"tweet"} THEN item.members["tweet"] ELSE item

\* The table of the records of a file: one row per record, the record's own
\* fields as columns.
RecordTable(text) ==
    LET items == StoredItems(text)
    IN JsonNormalize([i \in DOMAIN items |-> BareRecord(items[i]).members])

\* C15: for every non-empty list of tweet records, load_archive returns the
\* same table of records (one row per record, the record's own fields as
\* columns) whether the records are stored as JSON Lines, as a top-level
\* array, as an object with a `tweets` array, or as any of these with each
\* record wrapped under a `tweet` key.
C15_ShapeIndependence ==
    (file \in ArchiveFiles /\ LoadEnded) => loaded = Loaded(RecordTable(file))

\* C15 for the bare records stored as an array or under `tweets`, and for
\* the wrapped records stored as JSON Lines: these load as the claim says.
C15_HoldsFor ==
    (/\ file \in ArchiveFiles
     /\ LoadEnded
     /\ LET wrapped == DOMAIN StoredItems(file)[1].members = {"tweet"}
            jsonl == StoredItems(file) = file.values
        IN \/ jsonl /\ (wrapped \/ Len(file.values) = 1)
           \/ ~jsonl /\ ~wrapped)
        => loaded = Loaded(RecordTable(file))

\* C15: a JSON Lines file of two bare records has made load_archive raise.
C15_JsonLinesRaised ==
    /\ file \in ArchiveFiles
    /\ Len(file.values) = 2
    /\ loaded = LoadRaised("JSONDecodeError")

\* C15: an array of wrapped records has loaded with `tweet.`-prefixed columns.
C15_WrappedKeptPrefix ==
    /\ file \in ArchiveFiles
    /\ load_at = "returned"
    /\ IsJArray(file.values[1])
    /\ "tweet.id_str" \in Columns(loaded.table)

\* The parsed document of a file that holds one JSON value.
DocumentOf(text) == text.values[1]

IsScalar(doc) == ~IsJArray(doc) /\ ~IsJObject(doc)

\* A document in none of the supported shapes: a scalar, or an object that
\* has no `tweets` array and is not a tweet record (bare or wrapped).
MatchesNoShape(doc) ==
    \/ IsScalar(doc)
    \/ /\ IsJObject(doc)
       /\ ~HasTweetsArray(doc)
       /\ doc \notin TweetRecords \cup {Wrap(rec) : rec \in TweetRecords}

\* A valid document that holds zero records.
HoldsNoRecords(doc) ==
    \/ doc = JArray(<<>>)
    \/ HasTweetsArray(doc) /\ doc.members["tweets"].items = <<>>

\* C16: when the parsed document matches none of the supported shapes (a
\* top-level object that has no `tweets` array and is not a tweet record, or
\* a top-level scalar), load_archive fails with a format error naming the
\* unsupported structure and returns no table; when the document is valid but
\* holds zero records it returns an empty table without error.
C16_FailureSemantics ==
    (Len(file.values) = 1 /\ LoadEnded) =>
        /\ MatchesNoShape(DocumentOf(file)) => loaded = LoadRaised(UNSUPPORTED)
        /\ HoldsNoRecords(DocumentOf(file)) =>
                loaded.kind = "returned" /\ loaded.table.rows = <<>>

\* C16 amended: load_archive fails with the unsupported-structure error
\* exactly when the parsed document is neither an array nor an object, and
\* then returns no table; a top-level object without a `tweets` array, tweet
\* record or not, is normalized as one record into a table of one row; an
\* empty array, or `tweets` being an empty array, gives an empty table
\* without error.
C16_FailureSemanticsAnyObject ==
    (Len(file.values) = 1 /\ LoadEnded) =>
        /\ loaded.kind = "raised" <=> IsScalar(DocumentOf(file))
        /\ loaded.kind = "raised" => loaded = LoadRaised(UNSUPPORTED)
        /\ (IsJObject(DocumentOf(file)) /\ ~HasTweetsArray(DocumentOf(file))) =>
                loaded.kind = "returned" /\ Len(loaded.table.rows) = 1
        /\ HoldsNoRecords(DocumentOf(file)) =>
                loaded.kind = "returned" /\ loaded.table.rows = <<>>

\* C16 witness: load_archive has raised the unsupported-structure error on a
\* file whose document is a number.
C16_Witness ==
    /\ file.layout = "lines"
    /\ file.values = <<JNumber(5)>>
    /\ loaded = LoadRaised(UNSUPPORTED)

\* C16: an object that is no archive has loaded as a table of one row.
C16_ObjectLoaded ==
    /\ file.values = <<JObject("version" :> JNumber(2))>>
    /\ loaded.kind = "returned"
    /\ Len(loaded.table.rows) = 1

\* C16: an empty `tweets` array has loaded as an empty table.
C16_EmptyLoaded ==
    /\ file.values = <<JObject("tweets" :> JArray(<<>>))>>
    /\ file.layout = "lines"
    /\ loaded.kind = "returned"
    /\ loaded.table.rows = <<>>

(***************************************************************************)
(* Claims about the thread step indices                                    *)
(***************************************************************************)
\* reconstruct_threads has returned a table for a table that was indexed by
\* post_datetime, ascending with the null timestamps last.
ThreadsOfNormalized ==
    /\ fn = "reconstruct_threads"
    /\ at = "returned"
    /\ heap[df_arg].index_kind = "post_datetime"
    /\ \A i, j \in DOMAIN heap[df_arg].index :
            i < j => IndexLe(heap[df_arg].index[i], heap[df_arg].index[j])

\* The positions of the rows of thread T in table t.
ThreadMembers(t, T) == {i \in DOMAIN t.rows : t.rows[i]["thread_id"] = T}

\* In thread T of table t the step indices are 0..k-1, each used once, in
\* ascending timestamp order with the null timestamps last, and the starter
\* is the row with step index 0.
StepsExact(t, T) ==
    LET members == ThreadMembers(t, T)
        step(i) == t.rows[i]["thread_step_index"]
    IN /\ {step(i) : i \in members} = 0..(Cardinality(members) - 1)
       /\ \A i, j \in members : i /= j => step(i) /= step(j)
       /\ \A i, j \in members :
            (t.index[i] /= NaT /\ (t.index[j] = NaT \/ t.index[i] < t.index[j]))
                => step(i) < step(j)
       /\ \A i \in members : t.rows[i]["is_thread_starter"] <=> step(i) = 0
       /\ Cardinality({i \in members : t.rows[i]["is_thread_starter"]}) = 1

\* C18: in the output of reconstruct_threads, for every thread_id with k
\* records the thread_step_index values are exactly 0..k-1, each used once,
\* assigned in ascending timestamp order (null timestamps get the largest
\* indices); is_thread_starter is true iff thread_step_index is 0, so every
\* thread has exactly one starter.
C18_ThreadStepIndices ==
    ThreadsOfNormalized =>
        \A T \in {heap[ret.ref].rows[i]["thread_id"] : i \in DOMAIN heap[ret.ref].rows} :
            StepsExact(heap[ret.ref], T)

\* Two rows of different threads carry the same timestamp.
TiedAcrossThreads(t) ==
    \E i, j \in DOMAIN t.rows :
        /\ i /= j
        /\ t.index[i] /= NaT
        /\ t.index[i] = t.index[j]
        /\ t.rows[i]["thread_id"] /= t.rows[j]["thread_id"]

\* C18 where no timestamp is shared by rows of different threads, or no
\* timestamp is null: there the step indices are as the claim says.
C18_HoldsWithoutTies ==
    (/\ ThreadsOfNormalized
     /\ \/ ~TiedAcrossThreads(heap[ret.ref])
        \/ \A i \in DOMAIN heap[ret.ref].index : heap[ret.ref].index[i] /= NaT)
        => \A T \in {heap[ret.ref].rows[i]["thread_id"] : i \in DOMAIN heap[ret.ref].rows} :
                StepsExact(heap[ret.ref], T)

\* C18: a thread of two rows has come out with the step index 0 twice.
C18_TwoStarters ==
    /\ ThreadsOfNormalized
    /\ \E i, j \in DOMAIN heap[ret.ref].rows :
        /\ i /= j
        /\ heap[ret.ref].rows[i]["thread_id"] = heap[ret.ref].rows[j]["thread_id"]
        /\ heap[ret.ref].rows[i]["thread_step_index"] = 0
        /\ heap[ret.ref].rows[j]["thread_step_index"] = 0

(***************************************************************************)
(* Claims about classify_tweets_batch                                      *)
(***************************************************************************)
\* What the call of row i must contribute: the client's answer for the text
\* of row i, or the neutral classification when that call failed.
ExpectedClassification(i) ==
    IF client[i] = "answered" THEN Completion(tweets_df[i].text) ELSE Neutral

\* The tasks of the running batch.
RunningBatch == Batch(batch_start, Len(task))

\* C19: for every table of N tweets and every pattern of successes and
\* failures of the completion client, classify_tweets_batch ends with exactly
\* N classifications, and the classification written to the i-th row is the
\* result of classifying the i-th row's text, whatever the order in which the
\* calls completed; a failed call contributes the neutral classification to
\* its own row only, and never leaves the batch without a task that can run.
C19_PoolCorrespondence ==
    /\ pool_at = "returned" =>
        /\ Len(classifications) = Len(tweets_df)
        /\ Len(classified_df) = Len(tweets_df)
        /\ \A i \in DOMAIN tweets_df :
            /\ client[i] \in {"answered", "failed"}
            /\ classified_df[i].label = tweets_df[i].label
            /\ classified_df[i].text = tweets_df[i].text
            /\ classified_df[i].classification = ExpectedClassification(i)
    /\ pool_at = "gather" =>
        \/ \A k \in RunningBatch : task[k] = "done"
        \/ \E k \in RunningBatch : task[k] \in {"scheduled", "in_flight"}

\* C19 witness: a call on more than ten tweets (two batches) whose labels are
\* not their positions has returned; the call of the first row failed, the call
\* of the last row was answered, and the first row of the second batch
\* completed although a call of the first batch had failed.
C19_Witness ==
    /\ pool_at = "returned"
    /\ Len(tweets_df) > batch_size
    /\ tweets_df[1].label /= 0
    /\ client[1] = "failed"
    /\ classified_df[1].classification = Neutral
    /\ client[Len(tweets_df)] = "answered"
    /\ classified_df[Len(tweets_df)].classification /= Neutral

\* The calls in flight: tasks that hold the semaphore and have not returned.
InFlight == {k \in DOMAIN task : task[k] = "in_flight"}

\* Every unit has acquired the semaphore and completed, and the call is over.
AllCompleted ==
    /\ pool_at = "returned"
    /\ \A k \in DOMAIN task : task[k] = "done" /\ client[k] \in {"answered", "failed"}

\* C20: in every reachable state of classify_tweets_batch at most 5
\* classify_tweet calls are in flight, although a batch submits up to 10
\* units at once; and every submitted unit eventually acquires the semaphore
\* and completes, provided each completion call eventually returns or fails.
C20_PoolCap ==
    /\ [](Cardinality(InFlight) <= 5)
    /\ <>AllCompleted

\* C20 witness: five calls are in flight and the five other units of the
\* batch of ten wait for the semaphore.
C20_Witness ==
    /\ pool_at = "gather"
    /\ Cardinality(InFlight) = 5
    /\ Len(semaphore.waiters) = 5
    /\ semaphore.value = 0

(***************************************************************************)
(* Claims about the thread root                                            *)
(***************************************************************************)
\* The record of the table with the given id replies to some id.
IsReplying(id) == \E i \in DOMAIN df : df[i].id_str = id /\ df[i].reply /= None

\* The id that the record with the given id replies to.
ReplyOf(id) == df[CHOOSE i \in DOMAIN df : df[i].id_str = id /\ df[i].reply /= None].reply

\* The reply chain of `id`: the id, the id its record replies to, and so on,
\* up to the first id that is not a replying record of the table, or cut
\* after n steps.
RECURSIVE ChainFrom(_, _)
ChainFrom(id, n) ==
    IF n > 0 /\ IsReplying(id) THEN <<id>> \o ChainFrom(ReplyOf(id), n - 1) ELSE <<id>>

\* The chain of `id`, followed for as many steps as the table has rows: a
\* chain without a cycle ends within them.
Chain(id) == ChainFrom(id, Len(df))

\* The reply chain of `id` contains no cycle: it ends.
Acyclic(id) == ~IsReplying(Last(Chain(id)))

\* The id at which the chain of `id` ends.
ChainRoot(id) == Last(Chain(id))

Reaches(a, b) == b \in Range(Chain(a))

\* Two rows whose records are connected by the reply-parent relation.
Connected(i, j) ==
    Reaches(df[i].id_str, df[j].id_str) \/ Reaches(df[j].id_str, df[i].id_str)

\* C22 (as claimed): threads are equivalence classes. In a finished
\* reconstruction any two records of which one is reachable from the other
\* by following reply_to pointers have the same thread_id, for every row
\* order, cycles and chains that lead into a cycle included.
C22_EquivalenceClasses ==
    pc = "done" =>
        \A i, j \in DOMAIN df : Connected(i, j) => thread_id[i] = thread_id[j]

\* The same statement for the records whose reply chain contains no cycle.
C22_HoldsAcyclic ==
    pc = "done" =>
        \A i, j \in DOMAIN df :
            Connected(i, j) /\ Acyclic(df[i].id_str) /\ Acyclic(df[j].id_str)
                => thread_id[i] = thread_id[j]

\* A finished reconstruction of three records, two replying to each other
\* and a third replying to one of them, whose rows all have one thread_id.
C22_CycleSameThread ==
    /\ pc = "done"
    /\ Len(df) = 3
    /\ MutualPairs /= {}
    /\ \E i \in DOMAIN df : ~Acyclic(df[i].id_str) /\ \A m \in MutualPairs : i /= m[1]
    /\ \A i, j \in DOMAIN df : thread_id[i] = thread_id[j]

(***************************************************************************)
(* Claims about the order of the stages of engineer_features               *)
(***************************************************************************)
\* The table is indexed by post_datetime, its rows ascend by timestamp and
\* every row without a timestamp stands after every row with one.
Normalized(t) ==
    /\ t.index_kind = "post_datetime"
    /\ \A i \in DOMAIN t.rows : t.index[i] = t.rows[i]["post_datetime"]
    /\ \A i, j \in DOMAIN t.rows :
            i < j => /\ t.index[i] = NaT => t.index[j] = NaT
                     /\ t.index[j] /= NaT => t.index[i] <= t.index[j]

\* The table the caller passed.
InputTable == heap[df_arg]

\* The columns of the input that no stage rewrites: all but the text column,
\* whose nulls are filled.
KeptColumns == Columns(InputTable) \ {TextColumn(Columns(InputTable))}

\* The rows of a table, by what they hold in the kept columns of the input.
RowKeys(t) == [i \in DOMAIN t.rows |-> [c \in KeptColumns |-> t.rows[i][c]]]

\* The table has exactly one row per row of the input, and each row has the
\* timestamp its created_at cell parses to.
OneRowPerInput(t) ==
    /\ Len(t.rows) = Len(InputTable.rows)
    /\ LET out_keys == RowKeys(t)
           in_keys == RowKeys(InputTable)
       IN \E p \in Perms(Len(t.rows)) : \A i \in DOMAIN t.rows : out_keys[i] = in_keys[p[i]]
    /\ \A i \in DOMAIN t.rows :
            t.rows[i]["post_datetime"]
                = ToDatetimeUtc(t.rows[i][TimestampColumn(Columns(InputTable))])

\* The control points of engineer_features after normalize_datetime returned.
AfterNormalization ==
    {"normalized", "id_str", "flags", "text", "content", "reply_type", "time", "tier",
     "engagement", "returned"}

\* The input has the columns without which a call raises ValueError.
HasNeededColumns ==
    /\ TimestampColumn(Columns(InputTable)) /= "none"
    /\ fn = "engineer_features" =>
            /\ TextColumn(Columns(InputTable)) /= "none"
            /\ IdColumn(Columns(InputTable)) /= "none"

\* In every state: past normalization the working table of engineer_features
\* (and the table normalize_datetime returned) is normalized and has one row
\* per input row; a table has weekday, hour_of_day, month or thread_id only
\* if it is normalized; a call raises only when a needed column is missing.
StagesState ==
    /\ fn = "engineer_features" /\ at \in AfterNormalization =>
            Normalized(heap[local]) /\ OneRowPerInput(heap[local])
    /\ fn = "normalize_datetime" /\ at = "returned" =>
            Normalized(heap[ret.ref]) /\ OneRowPerInput(heap[ret.ref])
    /\ fn = "engineer_features" =>
            \A k \in DOMAIN heap :
                Columns(heap[k]) \cap {"weekday", "hour_of_day", "month", "thread_id"} /= {}
                    => Normalized(heap[k])
    /\ fn \in {"engineer_features", "normalize_datetime"} /\ at = "raised" =>
            ~HasNeededColumns

\* In every step past normalization the working table keeps its row order.
StagesStep ==
    fn = "engineer_features" /\ at \in AfterNormalization /\ at' \in AfterNormalization
        => RowKeys(heap'[local']) = RowKeys(heap[local])

\* C23: ordering of stages in engineer_features. Normalization and the sort
\* by timestamp are complete before weekday, hour and month are derived and
\* before thread reconstruction starts; after normalization the rows ascend
\* by timestamp and every row with an unparsable or missing timestamp stands
\* after every row with a valid one, and no such row makes the call raise;
\* every later stage and the output keep this row order, with exactly one
\* row per input row.
C23_StageOrder == [](StagesState) /\ [][StagesStep]_vars

\* C23 witness: engineer_features has returned for a table of three rows
\* given as: no date, the later date, the earlier date; the output has the
\* rows in the order third, second, first.
C23_Witness ==
    /\ fn = "engineer_features"
    /\ at = "returned"
    /\ Len(InputTable.rows) = 3
    /\ ToDatetimeUtc(InputTable.rows[1]["created_at"]) = NaT
    /\ TsLt(ToDatetimeUtc(InputTable.rows[3]["created_at"]),
            ToDatetimeUtc(InputTable.rows[2]["created_at"]))
    /\ [i \in 1..3 |-> heap[ret.ref].rows[i]["id_str"]]
            = <<IdStr("3"), IdStr("2"), IdStr("1")>>
    /\ heap[ret.ref].index[3] = NaT

(***************************************************************************)
(* Claims about the fetching of the mutual accounts                        *)
(***************************************************************************)
\* The batch file k holds the complete parsed response for batch k.
HoldsResponse(k) ==
    /\ k \in DOMAIN batches
    /\ batch_files[k] = JsonDump(ResponseFor(batches[k]))

\* While no run is going on: a batch file exists only if it holds the
\* complete response for its batch, and a batch whose last fetch failed has
\* no file; combine_and_export never meets a file that does not parse.
ResumableState ==
    /\ AtRest =>
            \A k \in DOMAIN batch_files :
                /\ batch_files[k] /= Absent => HoldsResponse(k)
                /\ last_fetch[k] \in {"failed", "unparsed"} => batch_files[k] = Absent
    /\ combined.kind /= "JSONDecodeError"

\* In every step: the CLI is run for a batch only if the batch has no file,
\* and the loop passes a batch without running the CLI only if its last
\* fetch was written.
ResumableStep ==
    /\ \A k \in DOMAIN cli_calls :
            cli_calls'[k] > cli_calls[k] => batch_files[k] = Absent
    /\ fetch_at = "for" /\ fetch_at' = "for" /\ batch_no' = batch_no + 1
            => last_fetch[batch_no] = "written"

\* C24 (as claimed): resumable fetching of the mutual accounts. Across any
\* sequence of runs of fetch_account_info, with any pattern of CLI failures
\* and of CLI output that is not JSON, a batch file exists only if it holds
\* the complete parsed response for its batch; a batch whose fetch failed
\* leaves no file and is fetched again on the next run; a batch whose file
\* exists is never fetched again; combine_and_export only ever reads batch
\* files that parse.
C24_ResumableFetch == [](ResumableState) /\ [][ResumableStep]_vars

\* The same state condition, as long as every output of the CLI that came
\* with exit status 0 was JSON.
C24_HoldsWhenOutputParses ==
    (\A k \in DOMAIN last_fetch : last_fetch[k] /= "unparsed") => ResumableState

\* A run has ended with JSONDecodeError and left an empty batch file; a later
\* run has passed that batch and completed, and combine_and_export has
\* failed on the file.
C24_EmptyFileLeft ==
    /\ fetch_at = "completed"
    /\ runs > 1
    /\ \E k \in DOMAIN batch_files :
            /\ batch_files[k] = EmptyText
            /\ last_fetch[k] = "unparsed"
            /\ cli_calls[k] = 1
    /\ combined.kind = "JSONDecodeError"

====
